---- MODULE Spec2Model ----
(***************************************************************************)
(* A model of regexpp-js: the WTF-16 reader (src/src/reader.rs), the       *)
(* regular-expression validator (src/src/validator.rs), the syntax-error   *)
(* constructor (src/src/regexp_syntax_error.rs) and the AST-building event *)
(* sink (src/src/parser.rs).                                               *)
(*                                                                         *)
(* Buffers are sequences of 16-bit code units.  The source indexes them    *)
(* from 0; Unit(s, i) reads the unit at source index i.  A Rust panic      *)
(* (expect, unwrap, assert!, unimplemented!, an index out of range) is an  *)
(* outcome of its own: the reader's panic field, the validator's           *)
(* st = "panic", the parser's pfail.                                       *)
(***************************************************************************)
EXTENDS Integers, Sequences, FiniteSets, TLC

VARIABLES
    reader,     \* the Reader under test (reader specification)
    eaten,      \* the boolean the last eat/eat2/eat3 returned
    peeked,     \* the four peeks taken after the last operation
    call,       \* the validator entry point last called, with its arguments
    outcome,    \* what that call returned: Ok, Err(message, index), or a panic
    log,        \* the events the event sink has received during the call
    queue,      \* the events the call still delivers to the event sink
    arena,      \* AllArenas.nodes: the nodes, by id (1-based)
    pstate,     \* RegExpParserState: _node, _flags, _backreferences, ...
    pfail       \* TRUE once a parser callback has panicked

vars ==
    <<reader, eaten, peeked, call, outcome, log, queue, arena, pstate, pfail>>

----------------------------------------------------------------------------
(* Code points, src/src/unicode/mod.rs *)

BACKSPACE == 8
CHARACTER_TABULATION == 9
LINE_FEED == 10
LINE_TABULATION == 11
FORM_FEED == 12
CARRIAGE_RETURN == 13
EXCLAMATION_MARK == 33
NUMBER_SIGN == 35
DOLLAR_SIGN == 36
PERCENT_SIGN == 37
AMPERSAND == 38
LEFT_PARENTHESIS == 40
RIGHT_PARENTHESIS == 41
ASTERISK == 42
PLUS_SIGN == 43
COMMA == 44
HYPHEN_MINUS == 45
FULL_STOP == 46
SOLIDUS == 47
DIGIT_ZERO == 48
DIGIT_ONE == 49
DIGIT_NINE == 57
COLON == 58
SEMICOLON == 59
LESS_THAN_SIGN == 60
EQUALS_SIGN == 61
GREATER_THAN_SIGN == 62
QUESTION_MARK == 63
COMMERCIAL_AT == 64
LATIN_CAPITAL_LETTER_B == 66
LATIN_CAPITAL_LETTER_D == 68
LATIN_CAPITAL_LETTER_P == 80
LATIN_CAPITAL_LETTER_S == 83
LATIN_CAPITAL_LETTER_W == 87
LATIN_SMALL_LETTER_A == 97
LATIN_SMALL_LETTER_B == 98
LATIN_SMALL_LETTER_C == 99
LATIN_SMALL_LETTER_D == 100
LATIN_SMALL_LETTER_F == 102
LATIN_SMALL_LETTER_G == 103
LATIN_SMALL_LETTER_I == 105
LATIN_SMALL_LETTER_M == 109
LATIN_SMALL_LETTER_N == 110
LATIN_SMALL_LETTER_P == 112
LATIN_SMALL_LETTER_Q == 113
LATIN_SMALL_LETTER_R == 114
LATIN_SMALL_LETTER_S == 115
LATIN_SMALL_LETTER_T == 116
LATIN_SMALL_LETTER_U == 117
LATIN_SMALL_LETTER_V == 118
LATIN_SMALL_LETTER_W == 119
LATIN_SMALL_LETTER_X == 120
LATIN_SMALL_LETTER_Y == 121
LEFT_SQUARE_BRACKET == 91
REVERSE_SOLIDUS == 92
RIGHT_SQUARE_BRACKET == 93
CIRCUMFLEX_ACCENT == 94
GRAVE_ACCENT == 96
LEFT_CURLY_BRACKET == 123
VERTICAL_LINE == 124
RIGHT_CURLY_BRACKET == 125
TILDE == 126
LINE_SEPARATOR == 8232
PARAGRAPH_SEPARATOR == 8233

\* The surrogate ranges: 0xd800..0xdbff lead, 0xdc00..0xdfff trail.
LeadSurrogateMin == 55296
TrailSurrogateMin == 56320
SurrogateMax == 57343
\* A code point above 0xffff takes two code units.
BmpMax == 65535
\* CodePoint::MAX, the sentinel of an unbounded quantifier.  TLC's integers
\* end at 2^31 - 1, so the model's CodePoint is 31 bits wide.
CodePointMax == 2147483647

\* Option<CodePoint>::None.
None == -1
\* The value of an expression whose evaluation panics.
Panic == -2

is_decimal_digit(code) == code >= DIGIT_ZERO /\ code <= DIGIT_NINE

is_line_terminator(code) ==
    code \in {LINE_FEED, CARRIAGE_RETURN, LINE_SEPARATOR, PARAGRAPH_SEPARATOR}

digit_to_int(code) == code - DIGIT_ZERO

is_lead_surrogate(code) == code >= LeadSurrogateMin /\ code < TrailSurrogateMin

is_trail_surrogate(code) == code >= TrailSurrogateMin /\ code <= SurrogateMax

----------------------------------------------------------------------------
(* The reader, src/src/reader.rs *)

\* The code unit at source index i (0-based) of buffer s.
Unit(s, i) == s[i + 1]

\* source[a..b], panicking (Panic) like a Rust slice when the range is bad.
SliceOk(s, a, b) == a <= b /\ b <= Len(s)

Slice(s, a, b) ==
    IF SliceOk(s, a, b) THEN [k \in 1..(b - a) |-> s[a + k]] ELSE Panic

is_surrogate_code_point(value) ==
    value >= LeadSurrogateMin /\ value <= SurrogateMax

\* char::decode_utf16 over the two units: a lead followed by a trail decodes
\* to one supplementary char; anything else makes the first item an Err (a
\* lone surrogate), and expect() panics.
get_single_surrogate_pair_code_point(a, b) ==
    IF is_lead_surrogate(a) /\ is_trail_surrogate(b)
    THEN (a - LeadSurrogateMin) * 1024 + (b - TrailSurrogateMin) + BmpMax + 1
    ELSE Panic

\* Reader::at: None at or past _end; the unit; or, under the unicode
\* implementation, the decoding of the units i and i+1 when unit i is in
\* the surrogate range.  _s[i] and _s[i..=i+1] panic past the buffer.
at(r, i) ==
    IF ~(i < r.end) THEN None
    ELSE IF i >= Len(r.s) THEN Panic
    ELSE IF ~r.u \/ ~is_surrogate_code_point(Unit(r.s, i)) THEN Unit(r.s, i)
    ELSE IF i + 1 >= Len(r.s) THEN Panic
    ELSE get_single_surrogate_pair_code_point(Unit(r.s, i), Unit(r.s, i + 1))

\* The highest buffer index at(i) reads, -1 when it reads none.
atTop(r, i) ==
    IF ~(i < r.end) THEN -1
    ELSE IF i >= Len(r.s) THEN i
    ELSE IF ~r.u \/ ~is_surrogate_code_point(Unit(r.s, i)) THEN i
    ELSE i + 1

width(c) == IF c # None /\ c > BmpMax THEN 2 ELSE 1

Max2(a, b) == IF a >= b THEN a ELSE b

\* Reader::default()
DefaultReader ==
    [s |-> <<>>, i |-> 0, start |-> 0, end |-> 0, u |-> FALSE,
     cp1 |-> None, w1 |-> 1, cp2 |-> None, w2 |-> 1, cp3 |-> None, w3 |-> 1,
     cp4 |-> None, panic |-> FALSE, top |-> -1]

\* Reader::rewind.  The four at() calls run in order; the first that panics
\* ends the call.  top records the highest index read since reset.
rewind(r, index) ==
    IF r.panic THEN r
    ELSE IF ~(index >= r.start) THEN [r EXCEPT !.panic = TRUE]
    ELSE
      LET c1 == at(r, index)
          x1 == width(c1)
          c2 == at(r, index + x1)
          x2 == width(c2)
          c3 == at(r, index + x1 + x2)
          x3 == width(c3)
          c4 == at(r, index + x1 + x2 + x3)
          t1 == Max2(r.top, atTop(r, index))
          t2 == Max2(t1, atTop(r, index + x1))
          t3 == Max2(t2, atTop(r, index + x1 + x2))
          t4 == Max2(t3, atTop(r, index + x1 + x2 + x3))
      IN  IF c1 = Panic THEN [r EXCEPT !.panic = TRUE, !.i = index, !.top = t1]
          ELSE IF c2 = Panic
          THEN [r EXCEPT !.panic = TRUE, !.i = index, !.cp1 = c1, !.w1 = x1,
                         !.top = t2]
          ELSE IF c3 = Panic
          THEN [r EXCEPT !.panic = TRUE, !.i = index, !.cp1 = c1, !.w1 = x1,
                         !.cp2 = c2, !.w2 = x2, !.top = t3]
          ELSE IF c4 = Panic
          THEN [r EXCEPT !.panic = TRUE, !.i = index, !.cp1 = c1, !.w1 = x1,
                         !.cp2 = c2, !.w2 = x2, !.cp3 = c3, !.w3 = x3,
                         !.top = t4]
          ELSE [r EXCEPT !.i = index, !.cp1 = c1, !.w1 = x1, !.cp2 = c2,
                         !.w2 = x2, !.cp3 = c3, !.w3 = x3, !.cp4 = c4,
                         !.top = t4]

\* Reader::reset
reset(r, source, start, end, u_flag) ==
    rewind([r EXCEPT !.u = u_flag, !.start = start, !.s = source,
                     !.end = end, !.panic = FALSE, !.top = -1], start)

\* A faulty advance: the fourth code point is read one code point early.
advance_short_window(r) ==
    IF r.panic \/ r.cp1 = None THEN r
    ELSE
      LET i2 == r.i + r.w1
          x1 == r.w2
          x2 == width(r.cp3)
          x3 == width(r.cp4)
          c4 == at(r, i2 + x1 + x2)
          t  == Max2(r.top, atTop(r, i2 + x1 + x2))
      IN  IF c4 = Panic
          THEN [r EXCEPT !.panic = TRUE, !.i = i2, !.cp1 = r.cp2, !.w1 = x1,
                         !.cp2 = r.cp3, !.w2 = x2, !.cp3 = r.cp4, !.w3 = x3,
                         !.top = t]
          ELSE [r EXCEPT !.i = i2, !.cp1 = r.cp2, !.w1 = x1, !.cp2 = r.cp3,
                         !.w2 = x2, !.cp3 = r.cp4, !.w3 = x3, !.cp4 = c4,
                         !.top = t]

\* Reader::advance
advance(r) ==
    IF r.panic \/ r.cp1 = None THEN r
    ELSE
      LET i2 == r.i + r.w1
          x1 == r.w2
          x2 == width(r.cp3)
          x3 == width(r.cp4)
          c4 == at(r, i2 + x1 + x2 + x3)
          t  == Max2(r.top, atTop(r, i2 + x1 + x2 + x3))
      IN  IF c4 = Panic
          THEN [r EXCEPT !.panic = TRUE, !.i = i2, !.cp1 = r.cp2, !.w1 = x1,
                         !.cp2 = r.cp3, !.w2 = x2, !.cp3 = r.cp4, !.w3 = x3,
                         !.top = t]
          ELSE [r EXCEPT !.i = i2, !.cp1 = r.cp2, !.w1 = x1, !.cp2 = r.cp3,
                         !.w2 = x2, !.cp3 = r.cp4, !.w3 = x3, !.cp4 = c4,
                         !.top = t]

\* Reader::eat, eat2, eat3: whether the call returns true, and the reader after.
eatOk(r, cp) == ~r.panic /\ r.cp1 = cp
eat(r, cp) == IF eatOk(r, cp) THEN advance(r) ELSE r

eat2Ok(r, a, b) == ~r.panic /\ r.cp1 = a /\ r.cp2 = b
eat2(r, a, b) == IF eat2Ok(r, a, b) THEN advance(advance(r)) ELSE r

eat3Ok(r, a, b, c) == ~r.panic /\ r.cp1 = a /\ r.cp2 = b /\ r.cp3 = c
eat3(r, a, b, c) ==
    IF eat3Ok(r, a, b, c) THEN advance(advance(advance(r))) ELSE r

\* current_code_point, next_code_point, next_code_point2, next_code_point3
Peeks(r) == <<r.cp1, r.cp2, r.cp3, r.cp4>>

----------------------------------------------------------------------------
(* The validator, src/src/validator.rs.                                    *)
(*                                                                         *)
(* A validator is a record v.  v.st is "run" while the call is under way,  *)
(* "err" once raise() has built the RegExpSyntaxError that every `?` hands  *)
(* up to the caller (v.msg, v.idx), and "panic" once the call has panicked. *)
(* Once v.st is not "run" no operator changes v any more.  v.ret holds the  *)
(* value the last consume_/eat_ method returned, v.mcs the                  *)
(* may_contain_strings of the UnicodeSetsConsumeResult it returned, v.ev    *)
(* the events handed to the Options hooks so far.                           *)

\* EcmaVersion, by year.
EcmaVersions == {5, 2015, 2016, 2017, 2018, 2019, 2020, 2021, 2022, 2023, 2024}

\* RegExpValidator::new with the options' strict() and ecma_version().
NewValidator(strict, ecma) ==
    [rd |-> DefaultReader, st |-> "run", msg |-> [none |-> TRUE], idx |-> 0,
     ret |-> FALSE, mcs |-> "none", ev |-> <<>>,
     opt_strict |-> strict, ecma |-> ecma,
     unicode_mode |-> FALSE, unicode_sets_mode |-> FALSE, n_flag |-> FALSE,
     last_int_value |-> 0, last_range |-> <<0, CodePointMax>>,
     last_str_value |-> <<>>, last_assertion_is_quantifiable |-> FALSE,
     num_capturing_parens |-> 0, group_names |-> {},
     backreference_names |-> {}, overflow_checks |-> TRUE,
     src_ctx |-> [source |-> <<>>, start |-> 0, end |-> 0, kind |-> "None"]]

Running(v) == v.st = "run"

Ret(v, b) == IF Running(v) THEN [v EXCEPT !.ret = b] ELSE v

\* panic!, unwrap() of None, assert!, unimplemented!()
Abort(v) == IF Running(v) THEN [v EXCEPT !.st = "panic", !.ret = FALSE] ELSE v

\* A call of an Options hook.
Emit(v, e) == IF Running(v) THEN [v EXCEPT !.ev = Append(@, e)] ELSE v

Ev(name, start, end, x) == [ev |-> name, start |-> start, end |-> end, x |-> x]

\* RegExpValidator::strict
strict(v) == v.opt_strict \/ v.unicode_mode

\* The reader's methods, on the validator's reader.
WithReader(v, r) ==
    IF ~Running(v) THEN v
    ELSE IF r.panic THEN [v EXCEPT !.rd = r, !.st = "panic", !.ret = FALSE]
    ELSE [v EXCEPT !.rd = r]

index(v) == v.rd.i
current_code_point(v) == v.rd.cp1
next_code_point(v) == v.rd.cp2
next_code_point2(v) == v.rd.cp3
next_code_point3(v) == v.rd.cp4

\* A loop goes round again: the round that began with the validator at v
\* has left it at a.  A round that goes on without having moved the reader
\* would repeat itself for ever; it is recorded in st and ends the call.
Again(v, a) ==
    (CHOOSE only \in {
      IF ~Running(b) \/ index(b) > index(v) THEN b
      ELSE [b EXCEPT !.st = "stall", !.ret = FALSE]
    : b \in {a} } : TRUE)

VReset(v, source, start, end) ==
    WithReader(v, reset(v.rd, source, start, end, v.unicode_mode))
VRewind(v, i) == WithReader(v, rewind(v.rd, i))
VAdvance(v) == WithReader(v, advance(v.rd))
VEat(v, cp) == Ret(WithReader(v, eat(v.rd, cp)), eatOk(v.rd, cp))
VEat2(v, a, b) == Ret(WithReader(v, eat2(v.rd, a, b)), eat2Ok(v.rd, a, b))
VEat3(v, a, b, c) ==
    Ret(WithReader(v, eat3(v.rd, a, b, c)), eat3Ok(v.rd, a, b, c))

\* Whether a call of eat, eat2, eat3 advances.  A call that does not
\* returns false and changes nothing; one that does returns true, or
\* panics while it advances.
Eats(v, cp) == Running(v) /\ eatOk(v.rd, cp)
Eats2(v, a, b) == Running(v) /\ eat2Ok(v.rd, a, b)
Eats3(v, a, b, c) == Running(v) /\ eat3Ok(v.rd, a, b, c)

\* A call of a hook whose end argument is self.index().
EmitTo(v, name, start, x) == Emit(v, Ev(name, start, index(v), x))

\* on_character(self.index() - 1, self.index(), cp)
OnCharacterBehind(v, cp) ==
    Emit(v, Ev("on_character", index(v) - 1, index(v), <<cp>>))

\* char::try_from(cp): a surrogate is no char.
IsChar(cp) == cp >= 0 /\ ~is_surrogate_code_point(cp)

\* new_reg_exp_syntax_error, src/src/regexp_syntax_error.rs.  The message
\* is "Invalid regular expression" ++ frame ++ ": " ++ cause, where the
\* frame is ": " ++ text for a non-empty literal, ": /" ++ text ++ "/" ++
\* flags for a pattern, and empty otherwise.  The model keeps the parts:
\* frame names the shape, text holds the code units of the slice, flags the
\* letters after the closing solidus, cause the cause and ch the character
\* a cause quotes.
new_reg_exp_syntax_error(src_ctx, unicode, unicode_sets, idx, cause, ch) ==
    LET ok == SliceOk(src_ctx.source, src_ctx.start, src_ctx.end)
        text == Slice(src_ctx.source, src_ctx.start, src_ctx.end)
        flags_text == IF unicode
                      THEN (IF unicode_sets THEN "uv" ELSE "u")
                      ELSE (IF unicode_sets THEN "v" ELSE "")
    IN  [message |->
           IF src_ctx.kind = "Literal" /\ ok /\ text # <<>>
           THEN [frame |-> "literal", text |-> text, flags |-> "",
                 cause |-> cause, ch |-> ch]
           ELSE IF src_ctx.kind = "Pattern" /\ ok
           THEN [frame |-> "pattern", text |-> text, flags |-> flags_text,
                 cause |-> cause, ch |-> ch]
           ELSE [frame |-> "", text |-> <<>>, flags |-> "",
                 cause |-> cause, ch |-> ch],
         index |-> idx,
         panics |-> src_ctx.kind \in {"Literal", "Pattern"} /\ ~ok]

\* RegExpValidator::raise with a RaiseContext {index, unicode, unicode_sets};
\* None stands for a field the context leaves out.
RaiseCtx(v, cause, ch, ctx_index, ctx_unicode, ctx_unicode_sets) ==
    IF ~Running(v) THEN v
    ELSE
      LET e == new_reg_exp_syntax_error(
                 v.src_ctx,
                 IF ctx_unicode = None
                 THEN v.unicode_mode /\ ~v.unicode_sets_mode
                 ELSE ctx_unicode = 1,
                 IF ctx_unicode_sets = None
                 THEN v.unicode_sets_mode
                 ELSE ctx_unicode_sets = 1,
                 IF ctx_index = None THEN index(v) ELSE ctx_index,
                 cause, ch)
      IN  IF e.panics THEN Abort(v)
          ELSE [v EXCEPT !.st = "err", !.msg = e.message, !.idx = e.index,
                         !.ret = FALSE]

\* A faulty raise: the index is one behind self.index().
raise_behind(v, cause) == RaiseCtx(v, cause, None, index(v) - 1, None, None)

\* raise(message, None)
raise(v, cause) == RaiseCtx(v, cause, None, None, None, None)

\* raise(&format!("... '{c}'"), ...) where c = char::try_from(cp).unwrap()
RaiseChar(v, cause, cp, ctx_index) ==
    IF IsChar(cp) THEN RaiseCtx(v, cause, cp, ctx_index, None, None)
    ELSE Abort(v)

\* The loop of validate_flags_internal over source[start..end], at index k
\* with the flags seen so far (existing) and the RegExpFlags so far (f).
RECURSIVE FlagsLoop(_, _, _, _, _, _)
FlagsLoop(v, source, start, end, k, acc) ==
    IF ~Running(v) THEN v
    ELSE IF k >= end
    THEN Emit(v, Ev("on_reg_exp_flags", start, end, acc.f))
    ELSE
      LET flag == Unit(source, k)
          f == acc.f
          known ==
            CASE flag = LATIN_SMALL_LETTER_G -> [f EXCEPT !.global = TRUE]
              [] flag = LATIN_SMALL_LETTER_I -> [f EXCEPT !.ignore_case = TRUE]
              [] flag = LATIN_SMALL_LETTER_M -> [f EXCEPT !.multiline = TRUE]
              [] flag = LATIN_SMALL_LETTER_U /\ v.ecma >= 2015
                   -> [f EXCEPT !.unicode = TRUE]
              [] flag = LATIN_SMALL_LETTER_Y /\ v.ecma >= 2015
                   -> [f EXCEPT !.sticky = TRUE]
              [] flag = LATIN_SMALL_LETTER_S /\ v.ecma >= 2018
                   -> [f EXCEPT !.dot_all = TRUE]
              [] flag = LATIN_SMALL_LETTER_D /\ v.ecma >= 2022
                   -> [f EXCEPT !.has_indices = TRUE]
              [] flag = LATIN_SMALL_LETTER_V /\ v.ecma >= 2024
                   -> [f EXCEPT !.unicode_sets = TRUE]
              [] OTHER -> [none |-> TRUE]
      IN  IF flag \in acc.existing
          THEN RaiseChar(v, "Duplicated flag", flag, start)
          ELSE IF known = [none |-> TRUE]
          THEN RaiseChar(v, "Invalid flag", flag, start)
          ELSE FlagsLoop(v, source, start, end, k + 1,
                         [existing |-> acc.existing \cup {flag}, f |-> known])

NoFlags ==
    [global |-> FALSE, ignore_case |-> FALSE, multiline |-> FALSE,
     unicode |-> FALSE, sticky |-> FALSE, dot_all |-> FALSE,
     has_indices |-> FALSE, unicode_sets |-> FALSE]

\* RegExpValidator::validate_flags_internal; &source[start..end] panics on a
\* bad range.
validate_flags_internal(v, source, start, end) ==
    IF ~Running(v) THEN v
    ELSE IF ~SliceOk(source, start, end) THEN Abort(v)
    ELSE FlagsLoop(v, source, start, end, start,
                   [existing |-> {}, f |-> NoFlags])

\* RegExpValidator::validate_flags
validate_flags(v, source, start, end) ==
    validate_flags_internal(
        [v EXCEPT !.src_ctx = [source |-> source, start |-> start,
                               end |-> end, kind |-> "Flags"]],
        source, start, end)

\* An assignment to a field of the validator.
Set(v, f, x) == IF Running(v) THEN [v EXCEPT ![f] = x] ELSE v

\* 10 * x + d in a CodePoint, for a digit d.  The model's CodePoint is 31
\* bits wide: a result above CodePointMax overflows, and then a build with
\* overflow checks panics and a build without them wraps around.
Overflows10(x, d) == x > (CodePointMax - d) \div 10

Wrapped10(x, d) ==
    LET lo == 10 * (x % 65536) + d
        hi == 10 * (x \div 65536) + (lo \div 65536)
    IN  (hi % 32768) * 65536 + (lo % 65536)

\* self._last_int_value = Some(10 * self._last_int_value.unwrap() + d)
TimesTenPlus(v, d) ==
    IF ~Running(v) THEN v
    ELSE IF ~Overflows10(v.last_int_value, d)
    THEN Set(v, "last_int_value", 10 * v.last_int_value + d)
    ELSE IF v.overflow_checks THEN Abort(v)
    ELSE Set(v, "last_int_value", Wrapped10(v.last_int_value, d))

is_syntax_character(cp) ==
    cp \in {CIRCUMFLEX_ACCENT, DOLLAR_SIGN, REVERSE_SOLIDUS, FULL_STOP,
            ASTERISK, PLUS_SIGN, QUESTION_MARK, LEFT_PARENTHESIS,
            RIGHT_PARENTHESIS, LEFT_SQUARE_BRACKET, RIGHT_SQUARE_BRACKET,
            LEFT_CURLY_BRACKET, RIGHT_CURLY_BRACKET, VERTICAL_LINE}

is_class_set_reserved_double_punctuator_character(cp) ==
    cp \in {AMPERSAND, EXCLAMATION_MARK, NUMBER_SIGN, DOLLAR_SIGN,
            PERCENT_SIGN, ASTERISK, PLUS_SIGN, COMMA, FULL_STOP, COLON,
            SEMICOLON, LESS_THAN_SIGN, EQUALS_SIGN, GREATER_THAN_SIGN,
            QUESTION_MARK, COMMERCIAL_AT, CIRCUMFLEX_ACCENT, GRAVE_ACCENT,
            TILDE}

is_class_set_syntax_character(cp) ==
    cp \in {LEFT_PARENTHESIS, RIGHT_PARENTHESIS, LEFT_SQUARE_BRACKET,
            RIGHT_SQUARE_BRACKET, LEFT_CURLY_BRACKET, RIGHT_CURLY_BRACKET,
            SOLIDUS, HYPHEN_MINUS, REVERSE_SOLIDUS, VERTICAL_LINE}

is_class_set_reserved_punctuator(cp) ==
    cp \in {AMPERSAND, HYPHEN_MINUS, EXCLAMATION_MARK, NUMBER_SIGN,
            PERCENT_SIGN, COMMA, COLON, SEMICOLON, LESS_THAN_SIGN,
            EQUALS_SIGN, GREATER_THAN_SIGN, COMMERCIAL_AT, GRAVE_ACCENT,
            TILDE}

\* The methods the port leaves as unimplemented!().
consume_k_group_name(v) == Abort(v)
consume_class_escape(v) == Abort(v)
consume_class_string(v, i) == Abort(v)
eat_reg_exp_identifier_name(v) == Abort(v)
eat_control_letter(v) == Abort(v)
eat_reg_exp_unicode_escape_sequence(v) == Abort(v)
eat_identity_escape(v) == Abort(v)
eat_unicode_property_value_expression(v) == Abort(v)
eat_legacy_octal_escape_sequence(v) == Abort(v)
eat_fixed_hex_digits(v, length) == Abort(v)

\* on_character(start, end, self._last_int_value.unwrap())
EmitLastCharacter(v, start) ==
    IF v.last_int_value = None THEN Abort(v)
    ELSE Emit(v, Ev("on_character", start, index(v), <<v.last_int_value>>))

\* A call whose result is used more than once is bound first:
\* (CHOOSE only \in {e(x) : x \in {d}} : TRUE) is e with x standing for the
\* value of d, so the call d is made once, before e.
\* self.m(x): the call of method m of the validator v with the arguments x.
\* The methods call one another through self.
RECURSIVE self(_, _, _)

\* The loop of eat_reg_exp_body.
RECURSIVE RegExpBodyLoop(_, _, _, _)
RegExpBodyLoop(v, start, in_class, escaped) ==
    IF ~Running(v) THEN v
    ELSE
      LET cp == current_code_point(v)
      IN  IF cp = None \/ is_line_terminator(cp)
          THEN raise(v, IF in_class THEN "Unterminated character class"
                        ELSE "Unterminated regular expression")
          ELSE IF escaped
          THEN RegExpBodyLoop(Again(v, VAdvance(v)), start, in_class, FALSE)
          ELSE IF cp = REVERSE_SOLIDUS
          THEN RegExpBodyLoop(Again(v, VAdvance(v)), start, in_class, TRUE)
          ELSE IF cp = LEFT_SQUARE_BRACKET
          THEN RegExpBodyLoop(Again(v, VAdvance(v)), start, TRUE, FALSE)
          ELSE IF cp = RIGHT_SQUARE_BRACKET
          THEN RegExpBodyLoop(Again(v, VAdvance(v)), start, FALSE, FALSE)
          ELSE IF \/ cp = SOLIDUS /\ ~in_class
                  \/ cp = ASTERISK /\ index(v) = start
          THEN Ret(v, index(v) # start)
          ELSE RegExpBodyLoop(Again(v, VAdvance(v)), start, in_class, FALSE)

eat_reg_exp_body(v) == RegExpBodyLoop(v, index(v), FALSE, FALSE)

\* The loop of count_capturing_parens.
RECURSIVE CountLoop(_, _, _, _)
CountLoop(v, in_class, escaped, count) ==
    IF ~Running(v) THEN v
    ELSE
      LET cp == current_code_point(v)
      IN  IF cp = None THEN Set(v, "num_capturing_parens", count)
          ELSE IF escaped THEN CountLoop(Again(v, VAdvance(v)), in_class, FALSE, count)
          ELSE IF cp = REVERSE_SOLIDUS
          THEN CountLoop(Again(v, VAdvance(v)), in_class, TRUE, count)
          ELSE IF cp = LEFT_SQUARE_BRACKET
          THEN CountLoop(Again(v, VAdvance(v)), TRUE, FALSE, count)
          ELSE IF cp = RIGHT_SQUARE_BRACKET
          THEN CountLoop(Again(v, VAdvance(v)), FALSE, FALSE, count)
          ELSE IF /\ cp = LEFT_PARENTHESIS
                  /\ ~in_class
                  /\ \/ next_code_point(v) # QUESTION_MARK
                     \/ /\ next_code_point2(v) = LESS_THAN_SIGN
                        /\ next_code_point3(v) # EQUALS_SIGN
                        /\ next_code_point3(v) # EXCLAMATION_MARK
          THEN CountLoop(Again(v, VAdvance(v)), in_class, FALSE, count + 1)
          ELSE CountLoop(Again(v, VAdvance(v)), in_class, FALSE, count)

\* count_capturing_parens, with the assignment of its result to
\* _num_capturing_parens that consume_pattern makes.
count_capturing_parens(v) ==
    VRewind(CountLoop(v, FALSE, FALSE, 0), index(v))

\* The loop of eat_decimal_digits.
RECURSIVE DecimalDigitsLoop(_)
DecimalDigitsLoop(v) ==
    IF ~Running(v) THEN v
    ELSE
      LET cp == current_code_point(v)
      IN  IF cp # None /\ is_decimal_digit(cp)
          THEN DecimalDigitsLoop(
                 Again(v, VAdvance(TimesTenPlus(v, digit_to_int(cp)))))
          ELSE v

eat_decimal_digits(v) ==
    (CHOOSE only \in { Ret(a, index(a) # index(v))
           : a \in {DecimalDigitsLoop(Set(v, "last_int_value", 0))} } : TRUE)

\* The loop of eat_decimal_escape: every round adds the first digit.
RECURSIVE DecimalEscapeLoop(_, _)
DecimalEscapeLoop(v, cp_present) ==
    IF ~Running(v) THEN v
    ELSE
      (CHOOSE only \in { IF /\ Running(a)
                /\ current_code_point(a) # None
                /\ current_code_point(a) >= DIGIT_ZERO
                /\ current_code_point(a) <= DIGIT_NINE
             THEN DecimalEscapeLoop(Again(v, a), cp_present)
             ELSE a
             : a \in {VAdvance(TimesTenPlus(v, cp_present - DIGIT_ZERO))} } : TRUE)

eat_decimal_escape(v) ==
    LET cp == current_code_point(v)
    IN  IF cp # None /\ cp >= DIGIT_ONE /\ cp <= DIGIT_NINE
        THEN Ret(DecimalEscapeLoop(Set(v, "last_int_value", 0), cp), TRUE)
        ELSE Ret(Set(v, "last_int_value", 0), FALSE)

eat_control_escape(v) ==
    IF Eats(v, LATIN_SMALL_LETTER_F)
    THEN Set(VEat(v, LATIN_SMALL_LETTER_F), "last_int_value", FORM_FEED)
    ELSE IF Eats(v, LATIN_SMALL_LETTER_N)
    THEN Set(VEat(v, LATIN_SMALL_LETTER_N), "last_int_value", LINE_FEED)
    ELSE IF Eats(v, LATIN_SMALL_LETTER_R)
    THEN Set(VEat(v, LATIN_SMALL_LETTER_R), "last_int_value", CARRIAGE_RETURN)
    ELSE IF Eats(v, LATIN_SMALL_LETTER_T)
    THEN Set(VEat(v, LATIN_SMALL_LETTER_T), "last_int_value",
             CHARACTER_TABULATION)
    ELSE IF Eats(v, LATIN_SMALL_LETTER_V)
    THEN Set(VEat(v, LATIN_SMALL_LETTER_V), "last_int_value", LINE_TABULATION)
    ELSE Ret(v, FALSE)

eat_c_control_letter(v) ==
    IF ~Eats(v, LATIN_SMALL_LETTER_C) THEN Ret(v, FALSE)
    ELSE (CHOOSE only \in { IF b.ret THEN b ELSE Ret(VRewind(b, index(v)), FALSE)
                : b \in {self("eat_control_letter", VEat(v, LATIN_SMALL_LETTER_C), <<>>)} } : TRUE)

eat_zero(v) ==
    IF /\ current_code_point(v) = DIGIT_ZERO
       /\ ~(next_code_point(v) # None /\ is_decimal_digit(next_code_point(v)))
    THEN Ret(VAdvance(Set(v, "last_int_value", 0)), TRUE)
    ELSE Ret(v, FALSE)

eat_hex_escape_sequence(v) ==
    IF ~Eats(v, LATIN_SMALL_LETTER_X) THEN Ret(v, FALSE)
    ELSE (CHOOSE only \in { IF b.ret THEN b
                ELSE IF b.unicode_mode \/ strict(b)
                THEN raise(b, "Invalid escape")
                ELSE Ret(VRewind(b, index(v)), FALSE)
                : b \in {self("eat_fixed_hex_digits", VEat(v, LATIN_SMALL_LETTER_X), <<2>>)} } : TRUE)

eat_group_name(v) ==
    IF ~Eats(v, LESS_THAN_SIGN) THEN Ret(v, FALSE)
    ELSE (CHOOSE only \in { IF b.ret /\ Eats(b, GREATER_THAN_SIGN)
                THEN VEat(b, GREATER_THAN_SIGN)
                ELSE raise(b, "Invalid capture group name")
                : b \in {self("eat_reg_exp_identifier_name", VEat(v, LESS_THAN_SIGN), <<>>)} } : TRUE)

RECURSIVE DisjunctionLoop(_, _), AlternativeLoop(_, _, _), ClassContentsLoop(_),
          IntersectionLoop(_, _, _), SubtractionLoop(_, _, _)

\* eat_braced_quantifier from `if self.eat(RIGHT_CURLY_BRACKET)` on, and
\* from `if !no_error && (self._unicode_mode || self.strict())` on.
BracedQuantifierFail(v, start, no_error) ==
    IF ~no_error /\ (v.unicode_mode \/ strict(v))
    THEN raise(v, "Incomplete quantifier")
    ELSE Ret(VRewind(v, start), FALSE)

BracedQuantifierEnd(v, start, no_error, min, max) ==
    IF ~Eats(v, RIGHT_CURLY_BRACKET)
    THEN BracedQuantifierFail(v, start, no_error)
    ELSE IF ~no_error /\ max < min
    THEN raise(VEat(v, RIGHT_CURLY_BRACKET),
               "numbers out of order in {} quantifier")
    ELSE Ret(Set(VEat(v, RIGHT_CURLY_BRACKET), "last_range", <<min, max>>),
             TRUE)

eat_braced_quantifier(v, no_error) ==
    IF ~Eats(v, LEFT_CURLY_BRACKET) THEN Ret(v, FALSE)
    ELSE
      (CHOOSE only \in {
        IF ~b.ret THEN BracedQuantifierFail(b, index(v), no_error)
        ELSE IF ~Eats(b, COMMA)
        THEN BracedQuantifierEnd(b, index(v), no_error,
                                 b.last_int_value, b.last_int_value)
        ELSE
          (CHOOSE only \in {
            BracedQuantifierEnd(d, index(v), no_error, b.last_int_value,
                                IF d.ret THEN d.last_int_value
                                ELSE CodePointMax)
          : d \in {self("eat_decimal_digits", VEat(b, COMMA), <<>>)} } : TRUE)
      : b \in {self("eat_decimal_digits", VEat(v, LEFT_CURLY_BRACKET), <<>>)} } : TRUE)

\* consume_quantifier from `let greedy = !self.eat(QUESTION_MARK)` on.
QuantifierEnd(v, start, no_consume, min, max) ==
    (CHOOSE only \in {
      Ret(IF no_consume THEN g
          ELSE Emit(g, Ev("on_quantifier", start, index(g),
                          <<min, max, ~g.ret>>)), TRUE)
    : g \in {VEat(v, QUESTION_MARK)} } : TRUE)

consume_quantifier(v, no_consume) ==
    IF Eats(v, ASTERISK)
    THEN QuantifierEnd(VEat(v, ASTERISK), index(v), no_consume,
                       0, CodePointMax)
    ELSE IF Eats(v, PLUS_SIGN)
    THEN QuantifierEnd(VEat(v, PLUS_SIGN), index(v), no_consume,
                       1, CodePointMax)
    ELSE IF Eats(v, QUESTION_MARK)
    THEN QuantifierEnd(VEat(v, QUESTION_MARK), index(v), no_consume, 0, 1)
    ELSE
      (CHOOSE only \in {
        IF d.ret
        THEN QuantifierEnd(d, index(v), no_consume,
                           d.last_range[1], d.last_range[2])
        ELSE Ret(d, FALSE)
      : d \in {self("eat_braced_quantifier", v, <<no_consume>>)} } : TRUE)

consume_optional_quantifier(v) == Ret(self("consume_quantifier", v, <<FALSE>>), TRUE)

consume_dot(v) ==
    (CHOOSE only \in {
      IF a.ret
      THEN Ret(Emit(a, Ev("on_any_character_set", index(a) - 1, index(a),
                          <<"Any">>)), TRUE)
      ELSE a
    : a \in {VEat(v, FULL_STOP)} } : TRUE)

consume_reverse_solidus_followed_by_c(v) ==
    IF /\ current_code_point(v) = REVERSE_SOLIDUS
       /\ next_code_point(v) = LATIN_SMALL_LETTER_C
    THEN
      (CHOOSE only \in {
        Ret(Emit(a, Ev("on_character", index(v), index(a),
                       <<REVERSE_SOLIDUS>>)), TRUE)
      : a \in {VAdvance(Set(v, "last_int_value", current_code_point(v)))} } : TRUE)
    ELSE Ret(v, FALSE)

consume_invalid_braced_quantifier(v) ==
    (CHOOSE only \in {
      IF a.ret THEN raise(a, "Nothing to repeat") ELSE Ret(a, FALSE)
    : a \in {self("eat_braced_quantifier", v, <<TRUE>>)} } : TRUE)

consume_pattern_character(v) ==
    IF /\ current_code_point(v) # None
       /\ ~is_syntax_character(current_code_point(v))
    THEN
      (CHOOSE only \in {
        Ret(Emit(a, Ev("on_character", index(v), index(a),
                       <<current_code_point(v)>>)), TRUE)
      : a \in {VAdvance(v)} } : TRUE)
    ELSE Ret(v, FALSE)

consume_extended_pattern_character(v) ==
    IF /\ current_code_point(v) # None
       /\ current_code_point(v) \notin
            {CIRCUMFLEX_ACCENT, DOLLAR_SIGN, REVERSE_SOLIDUS, FULL_STOP,
             ASTERISK, PLUS_SIGN, QUESTION_MARK, LEFT_PARENTHESIS,
             RIGHT_PARENTHESIS, LEFT_SQUARE_BRACKET, VERTICAL_LINE}
    THEN
      (CHOOSE only \in {
        Ret(Emit(a, Ev("on_character", index(v), index(a),
                       <<current_code_point(v)>>)), TRUE)
      : a \in {VAdvance(v)} } : TRUE)
    ELSE Ret(v, FALSE)

consume_group_specifier(v) ==
    IF ~Eats(v, QUESTION_MARK) THEN Ret(v, FALSE)
    ELSE
      (CHOOSE only \in {
        IF b.ret /\ b.last_str_value \notin b.group_names
        THEN Ret(Set(b, "group_names",
                     b.group_names \cup {b.last_str_value}), TRUE)
        ELSE IF b.ret THEN raise(b, "Duplicate capture group name")
        ELSE raise(b, "Invalid group")
      : b \in {self("eat_group_name", VEat(v, QUESTION_MARK), <<>>)} } : TRUE)

consume_backreference(v) ==
    (CHOOSE only \in {
      IF ~a.ret THEN Ret(a, FALSE)
      ELSE IF a.last_int_value <= a.num_capturing_parens
      THEN Ret(Emit(a, Ev("on_backreference", index(v) - 1, index(a),
                          <<a.last_int_value>>)), TRUE)
      ELSE IF strict(a) \/ a.unicode_mode THEN raise(a, "Invalid escape")
      ELSE Ret(VRewind(a, index(v)), FALSE)
    : a \in {self("eat_decimal_escape", v, <<>>)} } : TRUE)

\* One of the six letters of consume_character_class_escape, after the eat.
EscapeSet(v, start, kind, negate) ==
    Set(Ret(Emit(Set(v, "last_int_value", None),
                 Ev("on_escape_character_set", start - 1, index(v),
                    <<kind, negate>>)), TRUE), "mcs", "none")

\* consume_character_class_escape after \p or \P has been eaten.
\* eat_unicode_property_value_expression does not return, so the code
\* that uses its result has no model.
PropertyEscape(v) ==
    IF Eats(v, LEFT_CURLY_BRACKET)
    THEN raise(self("eat_unicode_property_value_expression", VEat(v, LEFT_CURLY_BRACKET), <<>>), "Invalid property name")
    ELSE raise(v, "Invalid property name")

\* consume_character_class_escape: v.ret tells Some from None, v.mcs is the
\* result's may_contain_strings.
consume_character_class_escape(v) ==
    IF Eats(v, LATIN_SMALL_LETTER_D)
    THEN EscapeSet(VEat(v, LATIN_SMALL_LETTER_D), index(v), "Digit", FALSE)
    ELSE IF Eats(v, LATIN_CAPITAL_LETTER_D)
    THEN EscapeSet(VEat(v, LATIN_CAPITAL_LETTER_D), index(v), "Digit", TRUE)
    ELSE IF Eats(v, LATIN_SMALL_LETTER_S)
    THEN EscapeSet(VEat(v, LATIN_SMALL_LETTER_S), index(v), "Space", FALSE)
    ELSE IF Eats(v, LATIN_CAPITAL_LETTER_S)
    THEN EscapeSet(VEat(v, LATIN_CAPITAL_LETTER_S), index(v), "Space", TRUE)
    ELSE IF Eats(v, LATIN_SMALL_LETTER_W)
    THEN EscapeSet(VEat(v, LATIN_SMALL_LETTER_W), index(v), "Word", FALSE)
    ELSE IF Eats(v, LATIN_CAPITAL_LETTER_W)
    THEN EscapeSet(VEat(v, LATIN_CAPITAL_LETTER_W), index(v), "Word", TRUE)
    ELSE IF v.unicode_mode /\ v.ecma >= 2018
            /\ Eats(v, LATIN_SMALL_LETTER_P)
    THEN PropertyEscape(Set(VEat(v, LATIN_SMALL_LETTER_P),
                            "last_int_value", None))
    ELSE IF v.unicode_mode /\ v.ecma >= 2018
            /\ Eats(v, LATIN_CAPITAL_LETTER_P)
    THEN PropertyEscape(Set(VEat(v, LATIN_CAPITAL_LETTER_P),
                            "last_int_value", None))
    ELSE Ret(v, FALSE)

\* consume_character_escape once one of its alternatives has returned true.
CharacterEscapeEnd(v, start) == Ret(EmitLastCharacter(v, start - 1), TRUE)

consume_character_escape(v) ==
    (CHOOSE only \in {
      IF a.ret THEN CharacterEscapeEnd(a, index(v)) ELSE
      (CHOOSE only \in {
        IF b.ret THEN CharacterEscapeEnd(b, index(v)) ELSE
        (CHOOSE only \in {
          IF c.ret THEN CharacterEscapeEnd(c, index(v)) ELSE
          (CHOOSE only \in {
            IF d.ret THEN CharacterEscapeEnd(d, index(v)) ELSE
            (CHOOSE only \in {
              IF e.ret THEN CharacterEscapeEnd(e, index(v)) ELSE
              (CHOOSE only \in {
                IF f.ret THEN CharacterEscapeEnd(f, index(v)) ELSE
                (CHOOSE only \in {
                  IF g.ret THEN CharacterEscapeEnd(g, index(v))
                  ELSE Ret(g, FALSE)
                : g \in {self("eat_identity_escape", f, <<>>)} } : TRUE)
              : f \in {IF ~strict(e) /\ ~e.unicode_mode
                       THEN self("eat_legacy_octal_escape_sequence", e, <<>>)
                       ELSE Ret(e, FALSE)} } : TRUE)
            : e \in {self("eat_reg_exp_unicode_escape_sequence", d, <<>>)} } : TRUE)
          : d \in {self("eat_hex_escape_sequence", c, <<>>)} } : TRUE)
        : c \in {self("eat_zero", b, <<>>)} } : TRUE)
      : b \in {self("eat_c_control_letter", a, <<>>)} } : TRUE)
    : a \in {self("eat_control_escape", v, <<>>)} } : TRUE)

consume_atom_escape(v) ==
    (CHOOSE only \in {
      IF a.ret THEN a ELSE
      (CHOOSE only \in {
        IF b.ret THEN b ELSE
        (CHOOSE only \in {
          IF c.ret THEN c ELSE
          (CHOOSE only \in {
            IF d.ret THEN d
            ELSE IF strict(d) \/ d.unicode_mode
            THEN raise(d, "Invalid escape")
            ELSE Ret(d, FALSE)
          : d \in {IF c.n_flag THEN self("consume_k_group_name", c, <<>>)
                   ELSE Ret(c, FALSE)} } : TRUE)
        : c \in {self("consume_character_escape", b, <<>>)} } : TRUE)
      : b \in {self("consume_character_class_escape", a, <<>>)} } : TRUE)
    : a \in {self("consume_backreference", v, <<>>)} } : TRUE)

consume_reverse_solidus_atom_escape(v) ==
    IF ~Eats(v, REVERSE_SOLIDUS) THEN Ret(v, FALSE)
    ELSE
      (CHOOSE only \in {
        IF b.ret THEN b ELSE Ret(VRewind(b, index(v)), FALSE)
      : b \in {self("consume_atom_escape", VEat(v, REVERSE_SOLIDUS), <<>>)} } : TRUE)

consume_class_atom(v) ==
    IF /\ current_code_point(v) # None
       /\ current_code_point(v) # REVERSE_SOLIDUS
       /\ current_code_point(v) # RIGHT_SQUARE_BRACKET
    THEN Ret(EmitLastCharacter(
               Set(VAdvance(v), "last_int_value", current_code_point(v)),
               index(v)), TRUE)
    ELSE IF ~Eats(v, REVERSE_SOLIDUS) THEN Ret(v, FALSE)
    ELSE
      (CHOOSE only \in {
        IF c.ret THEN c
        ELSE IF ~strict(c) /\ current_code_point(c) = LATIN_SMALL_LETTER_C
        THEN Ret(EmitLastCharacter(
                   Set(c, "last_int_value", REVERSE_SOLIDUS), index(v)), TRUE)
        ELSE IF strict(c) \/ c.unicode_mode THEN raise(c, "Invalid escape")
        ELSE Ret(VRewind(c, index(v)), FALSE)
      : c \in {self("consume_class_escape", VEat(v, REVERSE_SOLIDUS), <<>>)} } : TRUE)

consume_class_set_character(v) ==
    IF /\ \/ current_code_point(v) # next_code_point(v)
          \/ ~is_class_set_reserved_double_punctuator_character(
                current_code_point(v))
       /\ current_code_point(v) # None
       /\ ~is_class_set_syntax_character(current_code_point(v))
    THEN Ret(EmitLastCharacter(
               VAdvance(Set(v, "last_int_value", current_code_point(v))),
               index(v)), TRUE)
    ELSE IF ~Eats(v, REVERSE_SOLIDUS) THEN Ret(v, FALSE)
    ELSE
      (CHOOSE only \in {
        IF c.ret THEN c
        ELSE IF is_class_set_reserved_punctuator(current_code_point(c))
        THEN Ret(EmitLastCharacter(
                   VAdvance(Set(c, "last_int_value", current_code_point(c))),
                   index(v)), TRUE)
        ELSE IF Eats(c, LATIN_SMALL_LETTER_B)
        THEN Ret(EmitLastCharacter(
                   Set(VEat(c, LATIN_SMALL_LETTER_B), "last_int_value",
                       BACKSPACE), index(v)), TRUE)
        ELSE Ret(VRewind(c, index(v)), FALSE)
      : c \in {self("consume_character_escape", VEat(v, REVERSE_SOLIDUS), <<>>)} } : TRUE)

consume_class_set_range_from_operator(v, start) ==
    IF ~Eats(v, HYPHEN_MINUS) THEN Ret(v, FALSE)
    ELSE
      (CHOOSE only \in {
        IF ~b.ret THEN Ret(VRewind(b, index(v)), FALSE)
        ELSE IF v.last_int_value = None \/ b.last_int_value = None
        THEN raise(b, "Invalid character class")
        ELSE IF v.last_int_value > b.last_int_value
        THEN raise(b, "Range out of order in character class")
        ELSE Ret(EmitTo(b, "on_character_class_range", start,
                        <<v.last_int_value, b.last_int_value>>), TRUE)
      : b \in {self("consume_class_set_character", VEat(v, HYPHEN_MINUS), <<>>)} } : TRUE)

\* consume_class_string does not return, so the loop over the strings and
\* the code after it have no model.
consume_class_string_disjunction(v) ==
    IF ~Eats3(v, REVERSE_SOLIDUS, LATIN_SMALL_LETTER_Q, LEFT_CURLY_BRACKET)
    THEN Ret(v, FALSE)
    ELSE self("consume_class_string", Emit(VEat3(v, REVERSE_SOLIDUS, LATIN_SMALL_LETTER_Q,
                      LEFT_CURLY_BRACKET),
                Ev("on_class_string_disjunction_enter", index(v), None,
                   <<>>)), <<0>>)

\* consume_nested_class after "[" and the optional "^".
NestedClassBody(v, start, negate) ==
    (CHOOSE only \in {
      IF ~Eats(d, RIGHT_SQUARE_BRACKET)
      THEN raise(d, "Unterminated character class")
      ELSE IF negate /\ d.mcs = "true"
      THEN raise(VEat(d, RIGHT_SQUARE_BRACKET),
                 "Negated character class may contain strings")
      ELSE Set(Ret(EmitTo(VEat(d, RIGHT_SQUARE_BRACKET),
                          "on_character_class_leave", start, <<negate>>),
                   TRUE), "mcs", d.mcs)
    : d \in {self("consume_class_contents", Emit(v, Ev("on_character_class_enter", start, None,
                          <<negate, TRUE>>)), <<>>)} } : TRUE)

\* consume_nested_class: v.ret tells Some from None.
consume_nested_class(v) ==
    IF Eats(v, LEFT_SQUARE_BRACKET)
    THEN
      (CHOOSE only \in {
        NestedClassBody(VEat(a, CIRCUMFLEX_ACCENT), index(v),
                        Eats(a, CIRCUMFLEX_ACCENT))
      : a \in {VEat(v, LEFT_SQUARE_BRACKET)} } : TRUE)
    ELSE IF Eats(v, REVERSE_SOLIDUS)
    THEN
      (CHOOSE only \in {
        IF t.ret THEN t ELSE Ret(VRewind(t, index(v)), FALSE)
      : t \in {self("consume_character_class_escape", VEat(v, REVERSE_SOLIDUS), <<>>)} } : TRUE)
    ELSE Ret(v, FALSE)

\* consume_class_set_operand: v.ret tells Some from None.
consume_class_set_operand(v) ==
    (CHOOSE only \in {
      IF a.ret THEN a ELSE
      (CHOOSE only \in {
        IF b.ret THEN b ELSE
        (CHOOSE only \in {
          IF c.ret THEN Set(c, "mcs", "none") ELSE c
        : c \in {self("consume_class_set_character", b, <<>>)} } : TRUE)
      : b \in {self("consume_class_string_disjunction", a, <<>>)} } : TRUE)
    : a \in {self("consume_nested_class", v, <<>>)} } : TRUE)

consume_class_union_right(v, left_result) ==
    IF ~Running(v) THEN v
    ELSE
      (CHOOSE only \in {
        IF a.ret
        THEN self("consume_class_union_right", Again(v, self("consume_class_set_range_from_operator", a, <<index(v)>>)), <<left_result>>)
        ELSE
          (CHOOSE only \in {
            IF o.ret
            THEN self("consume_class_union_right", Again(v, o), <<IF o.mcs = "true" THEN "true" ELSE left_result>>)
            ELSE Set(o, "mcs", left_result)
          : o \in {self("consume_class_set_operand", a, <<>>)} } : TRUE)
      : a \in {self("consume_class_set_character", v, <<>>)} } : TRUE)

\* The loop after "&&".
IntersectionLoop(v, start, may_contain_strings) ==
    IF ~Running(v) THEN v
    ELSE IF current_code_point(v) = AMPERSAND
    THEN raise(v, "Invalid character in character class")
    ELSE
      (CHOOSE only \in {
        IF ~o.ret THEN raise(o, "Invalid character in character class")
        ELSE IF Eats2(o, AMPERSAND, AMPERSAND)
        THEN IntersectionLoop(
               Again(v, VEat2(EmitTo(o, "on_class_intersection", start, <<>>),
                              AMPERSAND, AMPERSAND)),
               start,
               IF o.mcs # "true" THEN "false" ELSE may_contain_strings)
        ELSE Set(EmitTo(o, "on_class_intersection", start, <<>>), "mcs",
                 IF o.mcs # "true" THEN "false" ELSE may_contain_strings)
      : o \in {self("consume_class_set_operand", v, <<>>)} } : TRUE)

\* The loop after "--".
SubtractionLoop(v, start, may_contain_strings) ==
    IF ~Running(v) THEN v
    ELSE
      (CHOOSE only \in {
        IF ~o.ret THEN raise(o, "Invalid character in character class")
        ELSE IF Eats2(o, HYPHEN_MINUS, HYPHEN_MINUS)
        THEN SubtractionLoop(
               Again(v, VEat2(EmitTo(o, "on_class_subtraction", start, <<>>),
                              HYPHEN_MINUS, HYPHEN_MINUS)),
               start, may_contain_strings)
        ELSE Set(EmitTo(o, "on_class_subtraction", start, <<>>), "mcs",
                 may_contain_strings)
      : o \in {self("consume_class_set_operand", v, <<>>)} } : TRUE)

\* consume_class_set_expression after its first operand.
ClassSetTail(v, start, may_contain_strings) ==
    IF Eats2(v, AMPERSAND, AMPERSAND)
    THEN IntersectionLoop(VEat2(v, AMPERSAND, AMPERSAND), start,
                          may_contain_strings)
    ELSE IF Eats2(v, HYPHEN_MINUS, HYPHEN_MINUS)
    THEN SubtractionLoop(VEat2(v, HYPHEN_MINUS, HYPHEN_MINUS), start,
                         may_contain_strings)
    ELSE self("consume_class_union_right", v, <<may_contain_strings>>)

\* consume_class_set_expression when nothing starts an operand.
ClassSetInvalid(v) ==
    IF current_code_point(v) = REVERSE_SOLIDUS
    THEN raise(VAdvance(v), "Invalid escape")
    ELSE IF /\ current_code_point(v) = next_code_point(v)
            /\ is_class_set_reserved_double_punctuator_character(
                 current_code_point(v))
    THEN raise(v, "Invalid set operation in character class")
    ELSE raise(v, "Invalid character in character class")

consume_class_set_expression(v) ==
    (CHOOSE only \in {
      IF a.ret
      THEN
        (CHOOSE only \in {
          IF r.ret
          THEN Set(self("consume_class_union_right", r, <<"none">>), "mcs", "none")
          ELSE ClassSetTail(r, index(v), "false")
        : r \in {self("consume_class_set_range_from_operator", a, <<index(v)>>)} } : TRUE)
      ELSE
        (CHOOSE only \in {
          IF o.ret THEN ClassSetTail(o, index(v), o.mcs)
          ELSE ClassSetInvalid(o)
        : o \in {self("consume_class_set_operand", a, <<>>)} } : TRUE)
    : a \in {self("consume_class_set_character", v, <<>>)} } : TRUE)

\* The loop of consume_class_contents outside unicode sets mode.
ClassContentsLoop(v) ==
    IF ~Running(v) THEN v
    ELSE
      (CHOOSE only \in {
        IF ~a.ret THEN a
        ELSE IF ~Eats(a, HYPHEN_MINUS) THEN ClassContentsLoop(Again(v, a))
        ELSE
          (CHOOSE only \in {
            IF ~d.ret THEN d
            ELSE IF a.last_int_value = None \/ d.last_int_value = None
            THEN (IF strict(v) \/ v.unicode_mode
                  THEN raise(d, "Invalid character class")
                  ELSE ClassContentsLoop(Again(v, d)))
            ELSE IF a.last_int_value > d.last_int_value
            THEN raise(d, "Range out of order in character class")
            ELSE ClassContentsLoop(
                   Again(v, EmitTo(d, "on_character_class_range", index(v),
                                   <<a.last_int_value, d.last_int_value>>)))
          : d \in {self("consume_class_atom", OnCharacterBehind(VEat(a, HYPHEN_MINUS),
                                       HYPHEN_MINUS), <<>>)} } : TRUE)
      : a \in {self("consume_class_atom", v, <<>>)} } : TRUE)

\* consume_class_contents: v.mcs is the result's may_contain_strings.
consume_class_contents(v) ==
    IF v.unicode_sets_mode
    THEN (IF current_code_point(v) = RIGHT_SQUARE_BRACKET
          THEN Set(v, "mcs", "none")
          ELSE self("consume_class_set_expression", v, <<>>))
    ELSE Set(ClassContentsLoop(v), "mcs", "none")

\* consume_character_class after "[" and the optional "^".
CharacterClassBody(v, start, negate) ==
    (CHOOSE only \in {
      IF ~Eats(d, RIGHT_SQUARE_BRACKET)
      THEN (IF current_code_point(d) = None
            THEN raise(d, "Unterminated character class")
            ELSE raise(d, "Invalid character in character class"))
      ELSE IF negate /\ d.mcs = "true"
      THEN raise(VEat(d, RIGHT_SQUARE_BRACKET),
                 "Negated character class may contain strings")
      ELSE Set(Ret(EmitTo(VEat(d, RIGHT_SQUARE_BRACKET),
                          "on_character_class_leave", start, <<negate>>),
                   TRUE), "mcs", d.mcs)
    : d \in {self("consume_class_contents", Emit(v, Ev("on_character_class_enter", start, None,
                          <<negate, v.unicode_sets_mode>>)), <<>>)} } : TRUE)

\* consume_character_class: v.ret tells Some from None, v.mcs is the
\* result's may_contain_strings.
consume_character_class(v) ==
    IF ~Eats(v, LEFT_SQUARE_BRACKET) THEN Ret(v, FALSE)
    ELSE
      (CHOOSE only \in {
        CharacterClassBody(VEat(a, CIRCUMFLEX_ACCENT), index(v),
                           Eats(a, CIRCUMFLEX_ACCENT))
      : a \in {VEat(v, LEFT_SQUARE_BRACKET)} } : TRUE)

consume_uncapturing_group(v) ==
    IF ~Eats3(v, LEFT_PARENTHESIS, QUESTION_MARK, COLON) THEN Ret(v, FALSE)
    ELSE
      (CHOOSE only \in {
        IF ~Eats(c, RIGHT_PARENTHESIS) THEN raise(c, "Unterminated group")
        ELSE Ret(EmitTo(VEat(c, RIGHT_PARENTHESIS), "on_group_leave",
                        index(v), <<>>), TRUE)
      : c \in {self("consume_disjunction", Emit(VEat3(v, LEFT_PARENTHESIS, QUESTION_MARK, COLON),
                      Ev("on_group_enter", index(v), None, <<>>)), <<>>)} } : TRUE)

\* consume_capturing_group from on_capturing_group_enter on.
CapturingGroupBody(v, start, name) ==
    (CHOOSE only \in {
      IF ~Eats(d, RIGHT_PARENTHESIS) THEN raise(d, "Unterminated group")
      ELSE Ret(EmitTo(VEat(d, RIGHT_PARENTHESIS), "on_capturing_group_leave",
                      start, <<name>>), TRUE)
    : d \in {self("consume_disjunction", Emit(v, Ev("on_capturing_group_enter", start, None,
                          <<name>>)), <<>>)} } : TRUE)

\* The name of a capturing group is None or the _last_str_value that
\* consume_group_specifier left.
consume_capturing_group(v) ==
    IF ~Eats(v, LEFT_PARENTHESIS) THEN Ret(v, FALSE)
    ELSE
      (CHOOSE only \in {
        CapturingGroupBody(b, index(v),
                           IF b.ecma >= 2018 /\ b.ret THEN b.last_str_value
                           ELSE None)
      : b \in {IF v.ecma >= 2018
               THEN self("consume_group_specifier", VEat(v, LEFT_PARENTHESIS), <<>>)
               ELSE IF next_code_point(v) = QUESTION_MARK
               THEN raise(VEat(v, LEFT_PARENTHESIS), "Invalid group")
               ELSE VEat(v, LEFT_PARENTHESIS)} } : TRUE)

\* a || self.m()?: the left operand a has been evaluated; m is called when
\* a is Ok(false).
OrElse(a, m) ==
    IF a.ret \/ ~Running(a) THEN a ELSE self(m, a, <<>>)

consume_atom(v) ==
    OrElse(OrElse(OrElse(OrElse(OrElse(
      self("consume_pattern_character", v, <<>>),
      "consume_dot"),
      "consume_reverse_solidus_atom_escape"),
      "consume_character_class"),
      "consume_uncapturing_group"),
      "consume_capturing_group")

consume_extended_atom(v) ==
    OrElse(OrElse(OrElse(OrElse(OrElse(OrElse(OrElse(
      self("consume_dot", v, <<>>),
      "consume_reverse_solidus_atom_escape"),
      "consume_reverse_solidus_followed_by_c"),
      "consume_character_class"),
      "consume_uncapturing_group"),
      "consume_capturing_group"),
      "consume_invalid_braced_quantifier"),
      "consume_extended_pattern_character")

\* consume_assertion from on_lookaround_assertion_enter on.
LookaroundBody(v, start, lookbehind, negate) ==
    (CHOOSE only \in {
      IF ~Eats(b, RIGHT_PARENTHESIS) THEN raise(b, "Unterminated group")
      ELSE Ret(EmitTo(Set(VEat(b, RIGHT_PARENTHESIS),
                          "last_assertion_is_quantifiable",
                          ~lookbehind /\ ~strict(b)),
                      "on_lookaround_assertion_leave", start,
                      <<IF lookbehind THEN "Lookbehind" ELSE "Lookahead",
                        negate>>), TRUE)
    : b \in {self("consume_disjunction", Emit(v, Ev("on_lookaround_assertion_enter", start, None,
                          <<IF lookbehind THEN "Lookbehind" ELSE "Lookahead",
                            negate>>)), <<>>)} } : TRUE)

\* consume_assertion after "(?" and the optional "<".
LookaroundKind(v, start, lookbehind) ==
    IF Eats(v, EQUALS_SIGN) \/ Eats(v, EXCLAMATION_MARK)
    THEN LookaroundBody(VEat(v, IF Eats(v, EQUALS_SIGN) THEN EQUALS_SIGN
                                ELSE EXCLAMATION_MARK),
                        start, lookbehind, ~Eats(v, EQUALS_SIGN))
    ELSE Ret(VRewind(v, start), FALSE)

\* The lookaround branch of consume_assertion, after "(?" has been eaten.
Lookaround(v, start) ==
    LookaroundKind(IF v.ecma >= 2018 THEN VEat(v, LESS_THAN_SIGN) ELSE v,
                   start, v.ecma >= 2018 /\ Eats(v, LESS_THAN_SIGN))

\* consume_assertion after _last_assertion_is_quantifiable = false.
AssertionBody(v) ==
    IF Eats(v, CIRCUMFLEX_ACCENT)
    THEN Ret(EmitTo(VEat(v, CIRCUMFLEX_ACCENT), "on_edge_assertion",
                    index(v), <<"Start">>), TRUE)
    ELSE IF Eats(v, DOLLAR_SIGN)
    THEN Ret(EmitTo(VEat(v, DOLLAR_SIGN), "on_edge_assertion",
                    index(v), <<"End">>), TRUE)
    ELSE IF Eats2(v, REVERSE_SOLIDUS, LATIN_CAPITAL_LETTER_B)
    THEN Ret(EmitTo(VEat2(v, REVERSE_SOLIDUS, LATIN_CAPITAL_LETTER_B),
                    "on_word_boundary_assertion", index(v),
                    <<"Word", TRUE>>), TRUE)
    ELSE IF Eats2(v, REVERSE_SOLIDUS, LATIN_SMALL_LETTER_B)
    THEN Ret(EmitTo(VEat2(v, REVERSE_SOLIDUS, LATIN_SMALL_LETTER_B),
                    "on_word_boundary_assertion", index(v),
                    <<"Word", FALSE>>), TRUE)
    ELSE IF Eats2(v, LEFT_PARENTHESIS, QUESTION_MARK)
    THEN Lookaround(VEat2(v, LEFT_PARENTHESIS, QUESTION_MARK), index(v))
    ELSE Ret(v, FALSE)

consume_assertion(v) ==
    AssertionBody(Set(v, "last_assertion_is_quantifiable", FALSE))

\* atom? && consume_optional_quantifier()?, the atom's result given.
Quantified(d) ==
    IF d.ret THEN self("consume_optional_quantifier", d, <<>>) ELSE d

\* consume_term after consume_assertion, whose result is a; u is
\* self._unicode_mode || self.strict().
TermAfterAssertion(a, u) ==
    IF a.ret
    THEN (IF u \/ ~a.last_assertion_is_quantifiable THEN a
          ELSE self("consume_optional_quantifier", a, <<>>))
    ELSE IF ~Running(a) THEN a
    ELSE Quantified(IF u THEN consume_atom(a) ELSE consume_extended_atom(a))

\* A faulty consume_term: it succeeds without consuming anything.
consume_term_empty(v) == Ret(v, TRUE)

consume_term(v) ==
    TermAfterAssertion(self("consume_assertion", v, <<>>),
                       v.unicode_mode \/ strict(v))

\* The while loop of consume_alternative and the on_alternative_leave that
\* follows it.
AlternativeLoop(v, start, i) ==
    IF ~Running(v) THEN v
    ELSE IF current_code_point(v) = None
    THEN EmitTo(v, "on_alternative_leave", start, <<i>>)
    ELSE
      (CHOOSE only \in {
        IF a.ret THEN AlternativeLoop(Again(v, a), start, i)
        ELSE EmitTo(a, "on_alternative_leave", start, <<i>>)
      : a \in {consume_term(v)} } : TRUE)

\* A faulty consume_alternative: the leave event starts one behind the
\* enter event.
consume_alternative_leaving_late(v, i) ==
    AlternativeLoop(Emit(v, Ev("on_alternative_enter", index(v), None, <<i>>)),
                    index(v) + 1, i)

consume_alternative(v, i) ==
    AlternativeLoop(Emit(v, Ev("on_alternative_enter", index(v), None, <<i>>)),
                    index(v), i)

\* The do-while loop of consume_disjunction.
DisjunctionLoop(v, i) ==
    IF ~Running(v) THEN v
    ELSE
      (CHOOSE only \in {
        IF Eats(a, VERTICAL_LINE)
        THEN DisjunctionLoop(Again(v, VEat(a, VERTICAL_LINE)), i + 1)
        ELSE a
      : a \in {consume_alternative(v, i)} } : TRUE)

consume_disjunction(v) ==
    (CHOOSE only \in {
      (CHOOSE only \in {
        IF c.ret THEN raise(c, "Nothing to repeat")
        ELSE IF Eats(c, LEFT_CURLY_BRACKET)
        THEN raise(VEat(c, LEFT_CURLY_BRACKET), "Lone quantifier brackets")
        ELSE EmitTo(c, "on_disjunction_leave", index(v), <<>>)
      : c \in {self("consume_quantifier", a, <<TRUE>>)} } : TRUE)
    : a \in {DisjunctionLoop(
               Emit(v, Ev("on_disjunction_enter", index(v), None, <<>>)),
               0)} } : TRUE)

\* consume_pattern after consume_disjunction.
PatternEnd(v, start) ==
    LET cp == current_code_point(v)
    IN  IF cp = RIGHT_PARENTHESIS THEN raise(v, "Unmatched ')'")
        ELSE IF cp = REVERSE_SOLIDUS THEN raise(v, "\\ at end of pattern")
        ELSE IF cp \in {RIGHT_SQUARE_BRACKET, RIGHT_CURLY_BRACKET}
        THEN raise(v, "Lone quantifier brackets")
        ELSE IF cp # None
        THEN RaiseChar(v, "Unexpected character", cp, None)
        ELSE IF ~(v.backreference_names \subseteq v.group_names)
        THEN raise(v, "Invalid named capture referenced")
        ELSE EmitTo(v, "on_pattern_leave", start, <<>>)

consume_pattern(v) ==
    PatternEnd(
      self("consume_disjunction", Emit(Set(Set(count_capturing_parens(v), "group_names", {}),
                 "backreference_names", {}),
             Ev("on_pattern_enter", index(v), None, <<>>)), <<>>),
      index(v))

self(m, v, x) ==
    CASE m = "consume_k_group_name" -> consume_k_group_name(v)
      [] m = "consume_class_escape" -> consume_class_escape(v)
      [] m = "consume_class_string" -> consume_class_string(v, x[1])
      [] m = "eat_reg_exp_identifier_name" -> eat_reg_exp_identifier_name(v)
      [] m = "eat_control_letter" -> eat_control_letter(v)
      [] m = "eat_reg_exp_unicode_escape_sequence" -> eat_reg_exp_unicode_escape_sequence(v)
      [] m = "eat_identity_escape" -> eat_identity_escape(v)
      [] m = "eat_unicode_property_value_expression" -> eat_unicode_property_value_expression(v)
      [] m = "eat_legacy_octal_escape_sequence" -> eat_legacy_octal_escape_sequence(v)
      [] m = "eat_fixed_hex_digits" -> eat_fixed_hex_digits(v, x[1])
      [] m = "eat_reg_exp_body" -> eat_reg_exp_body(v)
      [] m = "eat_decimal_digits" -> eat_decimal_digits(v)
      [] m = "eat_decimal_escape" -> eat_decimal_escape(v)
      [] m = "eat_control_escape" -> eat_control_escape(v)
      [] m = "eat_c_control_letter" -> eat_c_control_letter(v)
      [] m = "eat_zero" -> eat_zero(v)
      [] m = "eat_hex_escape_sequence" -> eat_hex_escape_sequence(v)
      [] m = "eat_group_name" -> eat_group_name(v)
      [] m = "eat_braced_quantifier" -> eat_braced_quantifier(v, x[1])
      [] m = "consume_quantifier" -> consume_quantifier(v, x[1])
      [] m = "consume_optional_quantifier" -> consume_optional_quantifier(v)
      [] m = "consume_dot" -> consume_dot(v)
      [] m = "consume_reverse_solidus_followed_by_c" -> consume_reverse_solidus_followed_by_c(v)
      [] m = "consume_invalid_braced_quantifier" -> consume_invalid_braced_quantifier(v)
      [] m = "consume_pattern_character" -> consume_pattern_character(v)
      [] m = "consume_extended_pattern_character" -> consume_extended_pattern_character(v)
      [] m = "consume_group_specifier" -> consume_group_specifier(v)
      [] m = "consume_backreference" -> consume_backreference(v)
      [] m = "consume_character_class_escape" -> consume_character_class_escape(v)
      [] m = "consume_character_escape" -> consume_character_escape(v)
      [] m = "consume_atom_escape" -> consume_atom_escape(v)
      [] m = "consume_reverse_solidus_atom_escape" -> consume_reverse_solidus_atom_escape(v)
      [] m = "consume_class_atom" -> consume_class_atom(v)
      [] m = "consume_class_set_character" -> consume_class_set_character(v)
      [] m = "consume_class_set_range_from_operator" -> consume_class_set_range_from_operator(v, x[1])
      [] m = "consume_class_string_disjunction" -> consume_class_string_disjunction(v)
      [] m = "consume_nested_class" -> consume_nested_class(v)
      [] m = "consume_class_set_operand" -> consume_class_set_operand(v)
      [] m = "consume_class_union_right" -> consume_class_union_right(v, x[1])
      [] m = "consume_class_set_expression" -> consume_class_set_expression(v)
      [] m = "consume_class_contents" -> consume_class_contents(v)
      [] m = "consume_character_class" -> consume_character_class(v)
      [] m = "consume_uncapturing_group" -> consume_uncapturing_group(v)
      [] m = "consume_capturing_group" -> consume_capturing_group(v)
      [] m = "consume_assertion" -> consume_assertion(v)
      [] m = "consume_disjunction" -> consume_disjunction(v)
      [] m = "consume_pattern" -> consume_pattern(v)

\* A faulty _parse_flags_option_to_mode: the conflict of the two flags is
\* reported at source_end instead of source_end + 1.
parse_flags_option_to_mode_at_end(v, flags, source_end) ==
    LET unicode == v.ecma >= 2015 /\ flags.unicode
        unicode_sets == v.ecma >= 2024 /\ flags.unicode_sets
    IN  Set(Set(Set(IF unicode /\ unicode_sets
                    THEN RaiseCtx(v, "Invalid regular expression flags",
                                  None, source_end, 1, 1)
                    ELSE v,
                    "unicode_mode", unicode \/ unicode_sets),
                "n_flag", \/ unicode /\ v.ecma >= 2018
                          \/ unicode_sets
                          \/ v.opt_strict /\ v.ecma >= 2023),
            "unicode_sets_mode", unicode_sets)

\* _parse_flags_option_to_mode, with the three assignments of its result
\* that validate_pattern_internal makes; flags.unicode and
\* flags.unicode_sets are TRUE for Some(true).  With both set the call
\* raises.
parse_flags_option_to_mode(v, flags, source_end) ==
    LET unicode == v.ecma >= 2015 /\ flags.unicode
        unicode_sets == v.ecma >= 2024 /\ flags.unicode_sets
    IN  Set(Set(Set(IF unicode /\ unicode_sets
                    THEN RaiseCtx(v, "Invalid regular expression flags",
                                  None, source_end + 1, 1, 1)
                    ELSE v,
                    "unicode_mode", unicode \/ unicode_sets),
                "n_flag", \/ unicode /\ v.ecma >= 2018
                          \/ unicode_sets
                          \/ v.opt_strict /\ v.ecma >= 2023),
            "unicode_sets_mode", unicode_sets)

validate_pattern_internal(v, source, start, end, flags) ==
    (CHOOSE only \in {
      IF ~b.n_flag /\ b.ecma >= 2018 /\ b.group_names # {}
      THEN VRewind(Set(b, "n_flag", TRUE), start)
      ELSE b
    : b \in {self("consume_pattern", VReset(parse_flags_option_to_mode(v, flags, end),
                      source, start, end), <<>>)} } : TRUE)

\* RegExpValidator::validate_pattern
validate_pattern(v, source, start, end, flags) ==
    validate_pattern_internal(
        [v EXCEPT !.src_ctx = [source |-> source, start |-> start,
                               end |-> end, kind |-> "Pattern"]],
        source, start, end, flags)

\* The condition of validate_literal:
\* self.eat(SOLIDUS) && self.eat_reg_exp_body()? && self.eat(SOLIDUS)
LiteralBody(v) ==
    IF ~Eats(v, SOLIDUS) THEN Ret(v, FALSE)
    ELSE
      (CHOOSE only \in {
        IF c.ret THEN VEat(c, SOLIDUS) ELSE c
      : c \in {self("eat_reg_exp_body", VEat(v, SOLIDUS), <<>>)} } : TRUE)

\* validate_literal once the body and the closing solidus have been eaten;
\* source[flag_start..] panics when flag_start is past the buffer.
LiteralFlagsAndPattern(v, source, start, end) ==
    IF ~SliceOk(source, index(v), Len(source)) THEN Abort(v)
    ELSE validate_pattern_internal(
           validate_flags_internal(v, source, index(v), end),
           source, start + 1, index(v) - 1,
           [unicode |-> \E k \in (index(v) + 1)..Len(source) :
                           source[k] = LATIN_SMALL_LETTER_U,
            unicode_sets |-> \E k \in (index(v) + 1)..Len(source) :
                                source[k] = LATIN_SMALL_LETTER_V])

\* RegExpValidator::validate_literal
validate_literal(v, source, start, end) ==
    (CHOOSE only \in {
      Emit(IF d.ret THEN LiteralFlagsAndPattern(d, source, start, end)
           ELSE IF start >= end THEN raise(d, "Empty")
           ELSE IF current_code_point(d) = None THEN Abort(d)
           ELSE RaiseChar(d, "Unexpected character",
                          current_code_point(d), None),
           Ev("on_literal_leave", start, end, <<>>))
    : d \in {LiteralBody(
               Emit(VReset([v EXCEPT
                              !.src_ctx = [source |-> source,
                                           start |-> start, end |-> end,
                                           kind |-> "Literal"],
                              !.unicode_sets_mode = FALSE,
                              !.unicode_mode = FALSE,
                              !.n_flag = FALSE],
                           source, start, end),
                    Ev("on_literal_enter", start, None, <<>>)))} } : TRUE)

----------------------------------------------------------------------------
(* The reader specification: a Reader driven through its public methods. *)

\* The longest buffer handed to a reader.
MaxBuf == 3

\* Code units of the readers' buffers: a BMP letter, a lead surrogate and a
\* trail surrogate.
ReaderUnits == {LATIN_SMALL_LETTER_A, LeadSurrogateMin, TrailSurrogateMin}

\* Code points asked of eat, eat2, eat3: the units, and the code point of
\* the surrogate pair.
EatCps == ReaderUnits \cup {BmpMax + 1}

\* Buffers longer than the window of four code points: what lies behind the
\* window is read by advance only.
LongBuffers ==
    {<<LATIN_SMALL_LETTER_A, LATIN_SMALL_LETTER_A, LATIN_SMALL_LETTER_A,
       LATIN_SMALL_LETTER_A, unit>> : unit \in ReaderUnits}

SeqsUpTo(S, n) == UNION {[1..k -> S] : k \in 0..n}

\* The code units of a sequence of tokens.
RECURSIVE Concat(_)
Concat(ss) == IF ss = <<>> THEN <<>> ELSE Head(ss) \o Concat(Tail(ss))

\* What no specification below uses stays as it is here.
IdleValidator ==
    /\ call = [op |-> "none"]
    /\ outcome = [st |-> "none"]
    /\ log = <<>>
    /\ queue = <<>>

IdleParser ==
    /\ arena = <<>>
    /\ pstate = [none |-> TRUE]
    /\ pfail = FALSE

IdleReader ==
    /\ reader = DefaultReader
    /\ eaten = FALSE
    /\ peeked = Peeks(DefaultReader)

\* A reader step leaves the validator and the parser alone.
OthersIdle == UNCHANGED <<call, outcome, log, queue, arena, pstate, pfail>>

InitReader == IdleReader /\ IdleValidator /\ IdleParser

\* reset(source, start, end, u_flag) with start <= end <= source.len().
\* reset overwrites every field of the reader, so the state it leads to
\* does not depend on the state it leaves: the model takes the step from
\* the freshly constructed reader only.
Reset ==
    /\ reader = DefaultReader
    /\ \E s \in SeqsUpTo(ReaderUnits, MaxBuf) \cup LongBuffers, u \in BOOLEAN :
       \E e \in 0..Len(s) :
         \E b \in 0..e :
          /\ reader' = reset(reader, s, b, e, u)
          /\ eaten' = FALSE
          /\ peeked' = Peeks(reader')
          /\ OthersIdle

\* rewind(i) with start <= i <= end
Rewind ==
    /\ ~reader.panic
    /\ \E i \in reader.start..reader.end :
          reader' = rewind(reader, i)
    /\ eaten' = FALSE
    /\ peeked' = Peeks(reader')
    /\ OthersIdle

Advance ==
    /\ ~reader.panic
    /\ reader' = advance(reader)
    /\ eaten' = FALSE
    /\ peeked' = Peeks(reader')
    /\ OthersIdle

Eat ==
    /\ ~reader.panic
    /\ \E cp \in EatCps :
          /\ reader' = eat(reader, cp)
          /\ eaten' = eatOk(reader, cp)
    /\ peeked' = Peeks(reader')
    /\ OthersIdle

Eat2 ==
    /\ ~reader.panic
    /\ \E a \in EatCps, b \in EatCps :
          /\ reader' = eat2(reader, a, b)
          /\ eaten' = eat2Ok(reader, a, b)
    /\ peeked' = Peeks(reader')
    /\ OthersIdle

Eat3 ==
    /\ ~reader.panic
    /\ \E a \in EatCps, b \in EatCps, c \in EatCps :
          /\ reader' = eat3(reader, a, b, c)
          /\ eaten' = eat3Ok(reader, a, b, c)
    /\ peeked' = Peeks(reader')
    /\ OthersIdle

NextReader == Reset \/ Rewind \/ Advance \/ Eat \/ Eat2 \/ Eat3

SpecReader == InitReader /\ [][NextReader]_vars

----------------------------------------------------------------------------
(* The validator specification: one call of validate_pattern,              *)
(* validate_flags or validate_literal on a validator fresh from new().     *)
(* call holds the arguments and the options, outcome what the call         *)
(* returned (Ok, the RegExpSyntaxError, or a panic), log the hooks called. *)

MaxPat == 3
MaxFlags == 3
MaxLit == 4

PatternAlphabets ==
    {{LATIN_SMALL_LETTER_A, LEFT_PARENTHESIS, RIGHT_PARENTHESIS,
      REVERSE_SOLIDUS, DIGIT_ONE},
     {LATIN_SMALL_LETTER_A, LEFT_SQUARE_BRACKET, RIGHT_SQUARE_BRACKET,
      HYPHEN_MINUS},
     {LATIN_SMALL_LETTER_A, LeadSurrogateMin, TrailSurrogateMin,
      ASTERISK}}

FlagUnits ==
    {LATIN_SMALL_LETTER_U, LATIN_SMALL_LETTER_V, LATIN_SMALL_LETTER_D,
     LATIN_SMALL_LETTER_A, LeadSurrogateMin}

LiteralAlphabets ==
    {{SOLIDUS, LATIN_SMALL_LETTER_A, LEFT_PARENTHESIS, LEFT_SQUARE_BRACKET},
     {SOLIDUS, LATIN_SMALL_LETTER_U, LATIN_SMALL_LETTER_V,
      TrailSurrogateMin},
     {SOLIDUS, LEFT_PARENTHESIS, TrailSurrogateMin},
     {SOLIDUS, RIGHT_SQUARE_BRACKET, LATIN_SMALL_LETTER_U}}

PatternFlags == [unicode : BOOLEAN, unicode_sets : BOOLEAN]

NoPatternFlags == [unicode |-> FALSE, unicode_sets |-> FALSE]

PatternSources == UNION {SeqsUpTo(A, MaxPat) : A \in PatternAlphabets}

\* Patterns validated whole, made of at most MaxPatTokens tokens of one
\* case under the case's flags.
MaxPatTokens == 4

PatternCases ==
    {[tokens |-> {<<LEFT_SQUARE_BRACKET, CIRCUMFLEX_ACCENT>>,
                  <<LEFT_SQUARE_BRACKET, CIRCUMFLEX_ACCENT,
                    LATIN_SMALL_LETTER_A, HYPHEN_MINUS,
                    LATIN_SMALL_LETTER_A>>,
                  <<REVERSE_SOLIDUS, LATIN_SMALL_LETTER_Q,
                    LEFT_CURLY_BRACKET, LATIN_SMALL_LETTER_A,
                    LATIN_SMALL_LETTER_A>>,
                  <<RIGHT_CURLY_BRACKET>>, <<RIGHT_SQUARE_BRACKET>>},
      flags |-> [unicode |-> FALSE, unicode_sets |-> TRUE]],
     [tokens |-> {<<LEFT_SQUARE_BRACKET, LATIN_SMALL_LETTER_A>>,
                  <<LEFT_SQUARE_BRACKET, LATIN_SMALL_LETTER_B>>,
                  <<HYPHEN_MINUS, LATIN_SMALL_LETTER_A>>,
                  <<RIGHT_SQUARE_BRACKET>>},
      flags |-> NoPatternFlags],
     [tokens |-> {<<LEFT_PARENTHESIS, QUESTION_MARK, LESS_THAN_SIGN,
                    LATIN_SMALL_LETTER_A, GREATER_THAN_SIGN>>,
                  <<LATIN_SMALL_LETTER_A>>, <<RIGHT_PARENTHESIS>>},
      flags |-> NoPatternFlags]}

\* Patterns of ten capturing groups and an escape of two digits, before
\* and behind the groups.
TenGroups ==
    <<LEFT_PARENTHESIS, RIGHT_PARENTHESIS, LEFT_PARENTHESIS,
      RIGHT_PARENTHESIS, LEFT_PARENTHESIS, RIGHT_PARENTHESIS,
      LEFT_PARENTHESIS, RIGHT_PARENTHESIS, LEFT_PARENTHESIS,
      RIGHT_PARENTHESIS, LEFT_PARENTHESIS, RIGHT_PARENTHESIS,
      LEFT_PARENTHESIS, RIGHT_PARENTHESIS, LEFT_PARENTHESIS,
      RIGHT_PARENTHESIS, LEFT_PARENTHESIS, RIGHT_PARENTHESIS,
      LEFT_PARENTHESIS, RIGHT_PARENTHESIS>>

LongPatterns ==
    {TenGroups \o <<REVERSE_SOLIDUS, DIGIT_ONE, d>>
       : d \in {DIGIT_ZERO, DIGIT_ONE}}
      \cup {<<REVERSE_SOLIDUS, DIGIT_ONE, DIGIT_ZERO>> \o TenGroups}

\* Classes of the v flag with a doubled punctuator as the first item, after
\* a character, after a range, after a nested class and after &&.
DoubledPunctuatorPrefixes ==
    {<<>>, <<LATIN_SMALL_LETTER_A>>,
     <<LATIN_SMALL_LETTER_A, HYPHEN_MINUS, LATIN_SMALL_LETTER_A>>,
     <<LEFT_SQUARE_BRACKET, LATIN_SMALL_LETTER_A, RIGHT_SQUARE_BRACKET>>,
     <<LATIN_SMALL_LETTER_A, AMPERSAND, AMPERSAND>>}

DoubledPunctuatorPatterns ==
    {<<LEFT_SQUARE_BRACKET>> \o p \o <<d, d, RIGHT_SQUARE_BRACKET>>
       : p \in DoubledPunctuatorPrefixes, d \in {EXCLAMATION_MARK, TILDE}}

\* The decimal digits of a number.
RECURSIVE Decimal(_)
Decimal(n) ==
    IF n < 10 THEN <<DIGIT_ZERO + n>>
    ELSE Decimal(n \div 10) \o <<DIGIT_ZERO + (n % 10)>>

\* The digits of CodePointMax + 1.
DecimalPastMax ==
    Decimal(CodePointMax \div 10) \o <<DIGIT_ZERO + (CodePointMax % 10) + 1>>

\* The letter a under a braced quantifier of the text t: a{t}.
Braced(t) ==
    <<LATIN_SMALL_LETTER_A, LEFT_CURLY_BRACKET>> \o t
      \o <<RIGHT_CURLY_BRACKET>>

\* Braced quantifiers whose numbers fit a CodePoint, up to CodePointMax.
BracedPatterns ==
    {Braced(Decimal(2)), Braced(Decimal(2) \o <<COMMA>>),
     Braced(Decimal(12) \o <<COMMA>> \o Decimal(34)),
     Braced(Decimal(3) \o <<COMMA>> \o Decimal(2)),
     Braced(Decimal(CodePointMax - 1)), Braced(Decimal(CodePointMax)),
     Braced(Decimal(0) \o <<COMMA>> \o Decimal(CodePointMax))}

\* Braced quantifiers with a number one above CodePointMax.
OverflowPatterns ==
    {Braced(DecimalPastMax),
     Braced(DecimalPastMax \o <<COMMA>> \o Decimal(1))}

\* Patterns that make the loops of the disjunction and of the set
\* operations go round more than once.
LoopPatterns ==
    {[source |-> <<LATIN_SMALL_LETTER_A, VERTICAL_LINE, LATIN_SMALL_LETTER_A,
                   LATIN_SMALL_LETTER_A, VERTICAL_LINE,
                   LATIN_SMALL_LETTER_A>>,
      flags |-> NoPatternFlags, checks |-> TRUE]}
      \cup {[source |-> <<LEFT_SQUARE_BRACKET, LATIN_SMALL_LETTER_A, op, op,
                          LATIN_SMALL_LETTER_A, op, op, LATIN_SMALL_LETTER_A,
                          RIGHT_SQUARE_BRACKET>>,
             flags |-> [unicode |-> FALSE, unicode_sets |-> TRUE],
             checks |-> TRUE] : op \in {AMPERSAND, HYPHEN_MINUS}}

\* The patterns validated whole, each with its flags and with the build:
\* checks tells whether the build has overflow checks, which matters for
\* the patterns that overflow only.
WholePatterns ==
    UNION {{[source |-> Concat(ts), flags |-> c.flags, checks |-> TRUE]
              : ts \in SeqsUpTo(c.tokens, MaxPatTokens)}
           : c \in PatternCases}
      \cup {[source |-> s, flags |-> NoPatternFlags, checks |-> TRUE]
              : s \in LongPatterns \cup BracedPatterns}
      \cup {[source |-> s, flags |-> NoPatternFlags, checks |-> b]
              : s \in OverflowPatterns, b \in BOOLEAN}
      \cup {[source |-> s,
             flags |-> [unicode |-> FALSE, unicode_sets |-> TRUE],
             checks |-> TRUE]
              : s \in DoubledPunctuatorPatterns}
      \cup LoopPatterns

\* The literal of a pattern and its flags: /pattern/ and the letters u, v.
LiteralOf(pattern, flags) ==
    <<SOLIDUS>> \o pattern \o <<SOLIDUS>>
      \o (IF flags.unicode THEN <<LATIN_SMALL_LETTER_U>> ELSE <<>>)
      \o (IF flags.unicode_sets THEN <<LATIN_SMALL_LETTER_V>> ELSE <<>>)
FlagSources == SeqsUpTo(FlagUnits, MaxFlags)
LiteralSources == UNION {SeqsUpTo(A, MaxLit) : A \in LiteralAlphabets}

\* The versions validators are made for, and those the pattern and literal
\* calls are made under.
Versions == {5, 2017, 2021, 2023, 2024}
PatternVersions == {2017, 2023, 2024}

\* What a call leaves behind: Ok(()), Err(RegExpSyntaxError) or a panic;
\* or no return at all, the call being caught in a loop.
Outcome(v) ==
    IF v.st = "run" THEN [st |-> "ok"]
    ELSE IF v.st = "err" THEN [st |-> "err", msg |-> v.msg, idx |-> v.idx]
    ELSE IF v.st = "stall" THEN [st |-> "stall"]
    ELSE [st |-> "panic"]

ValidatorFrame ==
    UNCHANGED <<reader, eaten, peeked, queue, arena, pstate, pfail>>

\* RegExpValidator::new(options)
New ==
    /\ call = [op |-> "none"]
    /\ \E opt_strict \in BOOLEAN, ecma \in Versions :
         call' = [op |-> "new", strict |-> opt_strict, ecma |-> ecma]
    /\ UNCHANGED <<outcome, log>>
    /\ ValidatorFrame

ValidatePattern ==
    /\ call.op = "new"
    /\ call.ecma \in PatternVersions
    /\ \E source \in PatternSources, flags \in PatternFlags :
         \E end \in 0..Len(source) : \E start \in 0..end :
           \E v \in {validate_pattern(NewValidator(call.strict, call.ecma),
                                     source, start, end, flags)} :
             /\ call' = [op |-> "validate_pattern", source |-> source,
                          start |-> start, end |-> end, flags |-> flags,
                          strict |-> call.strict, ecma |-> call.ecma]
             /\ outcome' = Outcome(v)
             /\ log' = v.ev
    /\ ValidatorFrame

\* validate_pattern(source, None, None, flags): start and end default to
\* the whole buffer.
ValidateWholePattern ==
    /\ call.op = "new"
    /\ call.ecma \in PatternVersions
    /\ \E c \in WholePatterns :
         \E v \in {validate_pattern(
                     [NewValidator(call.strict, call.ecma)
                        EXCEPT !.overflow_checks = c.checks],
                     c.source, 0, Len(c.source), c.flags)} :
           /\ call' = [op |-> "validate_pattern", source |-> c.source,
                        start |-> 0, end |-> Len(c.source),
                        flags |-> c.flags,
                        strict |-> call.strict, ecma |-> call.ecma]
           /\ outcome' = Outcome(v)
           /\ log' = v.ev
    /\ ValidatorFrame

ValidateFlags ==
    /\ call.op = "new"
    /\ ~call.strict
    /\ \E source \in FlagSources :
         \E end \in 0..Len(source) : \E start \in 0..end :
           \E v \in {validate_flags(NewValidator(call.strict, call.ecma),
                                   source, start, end)} :
             /\ call' = [op |-> "validate_flags", source |-> source,
                          start |-> start, end |-> end,
                          flags |-> NoPatternFlags,
                          strict |-> call.strict, ecma |-> call.ecma]
             /\ outcome' = Outcome(v)
             /\ log' = v.ev
    /\ ValidatorFrame

ValidateLiteral ==
    /\ call.op = "new"
    /\ call.ecma \in PatternVersions
    /\ \E source \in LiteralSources :
         \E end \in 0..Len(source) :
         \E start \in 0..(IF end > 0 THEN 1 ELSE 0) :
           \E v \in {validate_literal(NewValidator(call.strict, call.ecma),
                                     source, start, end)} :
             /\ call' = [op |-> "validate_literal", source |-> source,
                          start |-> start, end |-> end,
                          flags |-> NoPatternFlags,
                          strict |-> call.strict, ecma |-> call.ecma]
             /\ outcome' = Outcome(v)
             /\ log' = v.ev
    /\ ValidatorFrame

\* validate_literal(source, None, None) of the literal of a pattern
ValidateWholeLiteral ==
    /\ call.op = "new"
    /\ call.ecma \in PatternVersions
    /\ \E c \in PatternCases :
         \E ts \in SeqsUpTo(c.tokens, MaxPatTokens) :
         \E source \in {LiteralOf(Concat(ts), c.flags)} :
           \E v \in {validate_literal(NewValidator(call.strict, call.ecma),
                                     source, 0, Len(source))} :
             /\ call' = [op |-> "validate_literal", source |-> source,
                          start |-> 0, end |-> Len(source),
                          flags |-> NoPatternFlags,
                          strict |-> call.strict, ecma |-> call.ecma]
             /\ outcome' = Outcome(v)
             /\ log' = v.ev
    /\ ValidatorFrame

InitValidator == IdleReader /\ IdleValidator /\ IdleParser

NextValidator ==
    \/ New
    \/ ValidatePattern
    \/ ValidateWholePattern
    \/ ValidateFlags
    \/ ValidateLiteral
    \/ ValidateWholeLiteral

SpecValidator == InitValidator /\ [][NextValidator]_vars

----------------------------------------------------------------------------
(* Claims about the reader *)

\* The width rule as section 4.1 states it: the code point and the width at
\* position p of buffer s.
RuleIsPair(s, p, u) ==
    /\ u
    /\ is_lead_surrogate(Unit(s, p))
    /\ p + 1 < Len(s)
    /\ is_trail_surrogate(Unit(s, p + 1))

RuleCodePoint(s, p, u) ==
    IF RuleIsPair(s, p, u)
    THEN (Unit(s, p) - LeadSurrogateMin) * 1024
           + (Unit(s, p + 1) - TrailSurrogateMin) + BmpMax + 1
    ELSE Unit(s, p)

RuleWidth(s, p, u) == IF RuleIsPair(s, p, u) THEN 2 ELSE 1

\* C4: at every position p < end the reader yields the combined code point
\* with width 2 for a lead surrogate followed by a trail surrogate under
\* unicode mode, and the unit itself with width 1 in every other case, a
\* lone surrogate included.
C4_WidthRule ==
    \A p \in 0..(reader.end - 1) :
        /\ at(reader, p) = RuleCodePoint(reader.s, p, reader.u)
        /\ width(at(reader, p)) = RuleWidth(reader.s, p, reader.u)

\* C5: the reader never fails, never reads a code unit at an index >= end,
\* and a peek whose logical position is at or past end yields None.
C5_ReaderNoFailure ==
    /\ ~reader.panic
    /\ reader.top < reader.end
    /\ (reader.i >= reader.end => peeked[1] = None)
    /\ (reader.i + reader.w1 >= reader.end => peeked[2] = None)
    /\ (reader.i + reader.w1 + reader.w2 >= reader.end => peeked[3] = None)
    /\ (reader.i + reader.w1 + reader.w2 + reader.w3 >= reader.end
          => peeked[4] = None)

----------------------------------------------------------------------------
(* Claims about the validator *)

\* The code units source[start..end] of the call.
CallSlice == Slice(call.source, call.start, call.end)

LogHas(name) == \E k \in 1..Len(log) : log[k].ev = name

\* The flags section 4.2 allows under version e, and the units of the flag
\* string fs that offend: a repeat of an earlier unit, or a unit that is no
\* flag of the version.
FlagEnabled(unit, e) ==
    \/ unit \in {LATIN_SMALL_LETTER_G, LATIN_SMALL_LETTER_I,
                 LATIN_SMALL_LETTER_M}
    \/ unit \in {LATIN_SMALL_LETTER_U, LATIN_SMALL_LETTER_Y} /\ e >= 2015
    \/ unit = LATIN_SMALL_LETTER_S /\ e >= 2018
    \/ unit = LATIN_SMALL_LETTER_D /\ e >= 2022
    \/ unit = LATIN_SMALL_LETTER_V /\ e >= 2024

Repeats(fs, k) == \E j \in 1..(k - 1) : fs[j] = fs[k]

Offending(fs, e) ==
    {k \in 1..Len(fs) : Repeats(fs, k) \/ ~FlagEnabled(fs[k], e)}

FirstOffending(fs, e) ==
    CHOOSE k \in Offending(fs, e) : \A j \in Offending(fs, e) : k <= j

FlagCause(fs, e) ==
    IF Repeats(fs, FirstOffending(fs, e)) THEN "Duplicated flag"
    ELSE "Invalid flag"

\* C6: validate_pattern with flags.unicode and flags.unicode_sets both true
\* under ECMAScript 2024 fails before any event is emitted, with the message
\* "Invalid regular expression: /<source[start..end]>/uv: Invalid regular
\* expression flags" and index end + 1.
C6_UnicodeWithUnicodeSets ==
    (/\ call.op = "validate_pattern"
     /\ call.ecma >= 2024
     /\ call.flags.unicode
     /\ call.flags.unicode_sets)
    => /\ outcome =
            [st |-> "err",
             msg |-> [frame |-> "pattern", text |-> CallSlice,
                      flags |-> "uv",
                      cause |-> "Invalid regular expression flags",
                      ch |-> None],
             idx |-> call.end + 1]
       /\ log = <<>>

\* A call with both flags on a slice that is neither empty nor the whole
\* buffer has failed.
C6_Witness ==
    /\ call.op = "validate_pattern"
    /\ call.ecma >= 2024
    /\ call.flags.unicode
    /\ call.flags.unicode_sets
    /\ 0 < call.start
    /\ call.start < call.end
    /\ call.end < Len(call.source)
    /\ outcome.st = "err"

\* C7: validate_flags of a slice that holds both u and v, each unit of the
\* slice once and enabled by the version, fails with the cause "Invalid
\* regular expression flags" at the start of the slice and does not emit
\* on_reg_exp_flags.
C7_FlagsUnicodeWithUnicodeSets ==
    (/\ call.op = "validate_flags"
     /\ Offending(CallSlice, call.ecma) = {}
     /\ \E k \in 1..Len(CallSlice) : CallSlice[k] = LATIN_SMALL_LETTER_U
     /\ \E k \in 1..Len(CallSlice) : CallSlice[k] = LATIN_SMALL_LETTER_V)
    => /\ outcome.st = "err"
       /\ outcome.msg.cause = "Invalid regular expression flags"
       /\ outcome.idx = call.start
       /\ ~LogHas("on_reg_exp_flags")

\* C8: validate_flags of a slice with an offending unit fails with
\* "Invalid regular expression: Duplicated flag 'X'" when the first offending
\* unit X repeats an earlier one and with "Invalid regular expression:
\* Invalid flag 'X'" when it is no flag of the version; the index is start
\* and on_reg_exp_flags is not emitted.
C8_FlagErrors ==
    (/\ call.op = "validate_flags"
     /\ Offending(CallSlice, call.ecma) # {})
    => /\ outcome =
            [st |-> "err",
             msg |-> [frame |-> "", text |-> <<>>, flags |-> "",
                      cause |-> FlagCause(CallSlice, call.ecma),
                      ch |-> CallSlice[FirstOffending(CallSlice, call.ecma)]],
             idx |-> call.start]
       /\ ~LogHas("on_reg_exp_flags")

\* The literal of the call after the body recognizer: the validator once
\* validate_literal has evaluated its condition
\* eat(SOLIDUS) && eat_reg_exp_body()? && eat(SOLIDUS).
CallBody ==
    LiteralBody(VReset([NewValidator(call.strict, call.ecma) EXCEPT
                          !.src_ctx = [source |-> call.source,
                                       start |-> call.start,
                                       end |-> call.end,
                                       kind |-> "Literal"]],
                       call.source, call.start, call.end))

\* The flag string of the literal, source[flag_start..end], and the outcome
\* of validating the pattern between the two solidi on its own, under the
\* flags the literal carries.
CallFlagString == Slice(call.source, index(CallBody), call.end)

CallPatternAlone ==
    validate_pattern(NewValidator(call.strict, call.ecma), call.source,
                     call.start + 1, index(CallBody) - 1,
                     [unicode |-> \E k \in 1..Len(CallFlagString) :
                                     CallFlagString[k] = LATIN_SMALL_LETTER_U,
                      unicode_sets |-> \E k \in 1..Len(CallFlagString) :
                                     CallFlagString[k] = LATIN_SMALL_LETTER_V])

\* C9: validate_literal runs the body recognizer, then flag validation,
\* then pattern validation: on_literal_enter is the first event,
\* on_reg_exp_flags precedes on_pattern_enter, on_literal_leave is the last
\* event and is emitted only on success; a literal whose flag string and
\* pattern are both invalid reports the flag error, and a literal whose body
\* is unterminated reports the body error with no flag or pattern event.
C9_LiteralOrder ==
    call.op = "validate_literal" =>
      /\ log # <<>>
      /\ log[1].ev = "on_literal_enter"
      /\ \A i \in 1..Len(log) :
            log[i].ev = "on_pattern_enter"
              => \E j \in 1..(i - 1) : log[j].ev = "on_reg_exp_flags"
      /\ \A i \in 1..Len(log) :
            log[i].ev = "on_literal_leave"
              => i = Len(log) /\ outcome.st = "ok"
      /\ outcome.st = "ok" => log[Len(log)].ev = "on_literal_leave"
      /\ CallBody.st = "err"
           => /\ outcome = Outcome(CallBody)
              /\ log = <<Ev("on_literal_enter", call.start, None, <<>>)>>
      /\ (/\ CallBody.st = "run"
          /\ CallBody.ret
          /\ Offending(CallFlagString, call.ecma) # {}
          /\ CallPatternAlone.st # "run")
           => /\ outcome.st = "err"
              /\ outcome.msg.cause = FlagCause(CallFlagString, call.ecma)
              /\ outcome.msg.ch =
                   CallFlagString[FirstOffending(CallFlagString, call.ecma)]

\* C10: validate_pattern and validate_flags depend only on the code units in
\* [start, end): the outcome is that of validating the buffer
\* source[start..end] on its own over its whole length, with the same
\* message and an index larger by start.
C10_SliceOnly ==
    call.op \in {"validate_pattern", "validate_flags"} =>
      \A alone \in
           {IF call.op = "validate_pattern"
            THEN validate_pattern(NewValidator(call.strict, call.ecma),
                                  CallSlice, 0, call.end - call.start,
                                  call.flags)
            ELSE validate_flags(NewValidator(call.strict, call.ecma),
                                CallSlice, 0, call.end - call.start)} :
        /\ outcome.st = Outcome(alone).st
        /\ outcome.st = "err"
             => /\ outcome.msg = alone.msg
                /\ outcome.idx = alone.idx + call.start

----------------------------------------------------------------------------
(* The AST-building event sink, src/src/parser.rs, over the node arena of  *)
(* src/src/arena.rs and the nodes of src/src/ast.rs.  A node's id is its   *)
(* position in the arena; None is Option::None.                            *)

\* ast.rs, NodeBase
NodeBase(parent, start, end, raw) ==
    [_arena_id |-> None, parent |-> parent, start |-> start, end |-> end,
     raw |-> raw]

new_flags(parent, start, end, raw, flags) ==
    NodeBase(parent, start, end, raw) @@ [type |-> "Flags"] @@ flags

new_pattern(parent, start, end, raw, alternatives) ==
    NodeBase(parent, start, end, raw)
      @@ [type |-> "Pattern", alternatives |-> alternatives]

new_alternative(parent, start, end, raw, elements) ==
    NodeBase(parent, start, end, raw)
      @@ [type |-> "Alternative", elements |-> elements]

new_group(parent, start, end, raw, alternatives) ==
    NodeBase(parent, start, end, raw)
      @@ [type |-> "Group", alternatives |-> alternatives]

new_capturing_group(parent, start, end, raw, name, alternatives, references) ==
    NodeBase(parent, start, end, raw)
      @@ [type |-> "CapturingGroup", name |-> name,
          alternatives |-> alternatives, references |-> references]

new_quantifier(parent, start, end, raw, min, max, greedy, element) ==
    NodeBase(parent, start, end, raw)
      @@ [type |-> "Quantifier", min |-> min, max |-> max,
          greedy |-> greedy, element |-> element]

new_assertion(parent, start, end, raw, kind, negate, alternatives) ==
    NodeBase(parent, start, end, raw)
      @@ [type |-> "Assertion", kind |-> kind, negate |-> negate,
          alternatives |-> alternatives]

new_character_set(parent, start, end, raw, kind, strings, key, value, negate) ==
    NodeBase(parent, start, end, raw)
      @@ [type |-> "CharacterSet", kind |-> kind, strings |-> strings,
          key |-> key, value |-> value, negate |-> negate]

new_character(parent, start, end, raw, value) ==
    NodeBase(parent, start, end, raw)
      @@ [type |-> "Character", value |-> value]

new_backreference(parent, start, end, raw, ref_, resolved) ==
    NodeBase(parent, start, end, raw)
      @@ [type |-> "Backreference", ref_ |-> ref_, resolved |-> resolved]

new_character_class(parent, start, end, raw, unicode_sets, negate, elements) ==
    NodeBase(parent, start, end, raw)
      @@ [type |-> "CharacterClass", unicode_sets |-> unicode_sets,
          negate |-> negate, elements |-> elements]

new_expression_character_class(parent, start, end, raw, negate, expression) ==
    NodeBase(parent, start, end, raw)
      @@ [type |-> "ExpressionCharacterClass", negate |-> negate,
          expression |-> expression]

\* A faulty new_character_class_range: min and max change places.
new_character_class_range_swapped(parent, start, end, raw, min, max) ==
    NodeBase(parent, start, end, raw)
      @@ [type |-> "CharacterClassRange", min |-> max, max |-> min]

new_character_class_range(parent, start, end, raw, min, max) ==
    NodeBase(parent, start, end, raw)
      @@ [type |-> "CharacterClassRange", min |-> min, max |-> max]

new_class_intersection(parent, start, end, raw, left, right) ==
    NodeBase(parent, start, end, raw)
      @@ [type |-> "ClassIntersection", left |-> left, right |-> right]

new_class_subtraction(parent, start, end, raw, left, right) ==
    NodeBase(parent, start, end, raw)
      @@ [type |-> "ClassSubtraction", left |-> left, right |-> right]

new_class_string_disjunction(parent, start, end, raw, alternatives) ==
    NodeBase(parent, start, end, raw)
      @@ [type |-> "ClassStringDisjunction", alternatives |-> alternatives]

\* Option<Vec<Id<Node>>>: None and Some(vec)
NoVec == [some |-> FALSE]
SomeVec(s) == [some |-> TRUE, v |-> s]

\* CapturingGroupKey::Index(n) and CapturingGroupKey::Name(s)
KeyIndex(n) == [variant |-> "Index", key |-> n]
KeyName(s) == [variant |-> "Name", key |-> s]

\* RegExpParserState::new; source is Default::default() and no code of
\* parser.rs assigns it.
NewParserState(strict_, ecma_version) ==
    [strict |-> strict_, ecma_version |-> ecma_version,
     _node |-> None, _expression_buffer_map |-> {}, _flags |-> None,
     _backreferences |-> <<>>, _capturing_groups |-> <<>>,
     source |-> <<>>]

\* A callback at work: the arena, the parser state, and fail once a
\* statement of the callback has panicked.  Every step below leaves a
\* failed callback as it is.
Callback(a, ps) == [arena |-> a, ps |-> ps, fail |-> FALSE]

PFail(P) == [P EXCEPT !.fail = TRUE]

\* The id alloc_node gives the next node.
NextId(P) == Len(P.arena) + 1

\* AllArenas::alloc_node: alloc, then set_arena_id
alloc_node(P, node) ==
    IF P.fail THEN P
    ELSE [P EXCEPT !.arena =
            Append(@, [node EXCEPT !._arena_id = NextId(P)])]

\* alloc_node called while a Ref of AllArenas::node is alive: the borrow_mut
\* of the RefCell panics.
alloc_node_borrowed(P, node) == PFail(P)

\* *self._node.borrow_mut() = id
SetNode(P, id) == IF P.fail THEN P ELSE [P EXCEPT !.ps._node = id]

\* node.set_parent(parent)
set_parent(P, id, parent) ==
    IF P.fail THEN P ELSE [P EXCEPT !.arena[id].parent = parent]

\* The closure of the leave callbacks: set_end(end), then
\* set_raw(self.source[start..end].to_owned()), whose slice may panic.
Finish(P, id, start, end) ==
    IF P.fail THEN P
    ELSE IF ~SliceOk(P.ps.source, start, end)
    THEN PFail([P EXCEPT !.arena[id].end = end])
    ELSE [P EXCEPT !.arena[id].end = end,
                   !.arena[id].raw = Slice(P.ps.source, start, end)]

\* The vector a node keeps its children in, by the node's variant.
Children(node) ==
    IF node.type \in {"Alternative", "CharacterClass", "StringAlternative"}
    THEN node.elements
    ELSE IF node.type \in {"Pattern", "Group", "CapturingGroup",
                           "ClassStringDisjunction"}
    THEN node.alternatives
    ELSE IF node.type = "Assertion" /\ node.alternatives.some
    THEN node.alternatives.v
    ELSE <<>>

\* parent.elements.push(id) / parent.alternatives.push(id)
Push(P, parent, id) ==
    IF P.fail THEN P
    ELSE IF P.arena[parent].type
              \in {"Alternative", "CharacterClass", "StringAlternative"}
    THEN [P EXCEPT !.arena[parent].elements = Append(@, id)]
    ELSE IF P.arena[parent].type = "Assertion"
    THEN [P EXCEPT !.arena[parent].alternatives.v = Append(@, id)]
    ELSE [P EXCEPT !.arena[parent].alternatives = Append(@, id)]

\* parent.elements.pop(), the popped id being Last(elements)
Last(s) == s[Len(s)]

Pop(P, parent) ==
    IF P.fail THEN P
    ELSE [P EXCEPT !.arena[parent].elements = SubSeq(@, 1, Len(@) - 1)]

\* self._node.borrow().unwrap() is a node of one of the types
NodeIs(P, types) ==
    /\ P.ps._node # None
    /\ P.arena[P.ps._node].type \in types

\* on_reg_exp_flags(start, end, flags)
on_reg_exp_flags(P, e) ==
    IF ~SliceOk(P.ps.source, e.start, e.end) THEN PFail(P)
    ELSE [alloc_node(P, new_flags(None, e.start, e.end,
                                  Slice(P.ps.source, e.start, e.end), e.x))
            EXCEPT !.ps._flags = NextId(P)]

\* on_pattern_enter(start)
on_pattern_enter(P, e) ==
    [alloc_node(P, new_pattern(None, e.start, e.start, <<>>, <<>>))
       EXCEPT !.ps._node = NextId(P),
              !.ps._backreferences = <<>>,
              !.ps._capturing_groups = <<>>]

\* The group a backreference names: _capturing_groups[ref_ - 1], or the
\* first group of that name; None where the index or the unwrap panics.
GroupOf(P, ref_) ==
    IF ref_.variant = "Index"
    THEN IF ref_.key >= 1 /\ ref_.key <= Len(P.ps._capturing_groups)
         THEN P.ps._capturing_groups[ref_.key]
         ELSE None
    ELSE IF \E k \in 1..Len(P.ps._capturing_groups) :
              P.arena[P.ps._capturing_groups[k]].name = ref_.key
    THEN P.ps._capturing_groups[
           CHOOSE k \in 1..Len(P.ps._capturing_groups) :
             /\ P.arena[P.ps._capturing_groups[k]].name = ref_.key
             /\ \A j \in 1..(k - 1) :
                  P.arena[P.ps._capturing_groups[j]].name # ref_.key]
    ELSE None

\* The loop of on_pattern_leave over _backreferences, from the k-th on.
RECURSIVE ResolveFrom(_, _)
ResolveFrom(P, k) ==
    IF P.fail \/ k > Len(P.ps._backreferences) THEN P
    ELSE (CHOOSE only \in {
           IF group = None THEN PFail(P)
           ELSE ResolveFrom(
                  [P EXCEPT
                     !.arena[P.ps._backreferences[k]].resolved = group,
                     !.arena[group].references =
                        Append(@, P.ps._backreferences[k])],
                  k + 1)
         : group \in {GroupOf(P, P.arena[P.ps._backreferences[k]].ref_)} }
         : TRUE)

\* on_pattern_leave(start, end)
on_pattern_leave(P, e) ==
    IF P.ps._node = None THEN PFail(P)
    ELSE ResolveFrom(Finish(P, P.ps._node, e.start, e.end), 1)

\* on_alternative_enter(start, index)
on_alternative_enter(P, e) ==
    IF ~NodeIs(P, {"Assertion", "CapturingGroup", "Group", "Pattern"})
    THEN PFail(P)
    ELSE IF /\ P.arena[P.ps._node].type = "Assertion"
            /\ ~P.arena[P.ps._node].alternatives.some
    THEN PFail(SetNode(alloc_node(P, new_alternative(P.ps._node, e.start,
                                                     e.start, <<>>, <<>>)),
                       NextId(P)))
    ELSE Push(SetNode(alloc_node(P, new_alternative(P.ps._node, e.start,
                                                    e.start, <<>>, <<>>)),
                      NextId(P)),
              P.ps._node, NextId(P))

\* The leave callbacks of the appendable nodes: the assert! on _node, the
\* closure, then *self._node.borrow_mut() = node.maybe_parent().
Leave(P, e, types) ==
    IF ~NodeIs(P, types) THEN PFail(P)
    ELSE SetNode(Finish(P, P.ps._node, e.start, e.end),
                 P.arena[P.ps._node].parent)

\* on_alternative_leave(start, end, index)
on_alternative_leave(P, e) == Leave(P, e, {"Alternative"})

\* on_group_enter(start)
on_group_enter(P, e) ==
    IF ~NodeIs(P, {"Alternative"}) THEN PFail(P)
    ELSE Push(SetNode(alloc_node(P, new_group(P.ps._node, e.start, e.start,
                                              <<>>, <<>>)),
                      NextId(P)),
              P.ps._node, NextId(P))

\* on_group_leave(start, end)
on_group_leave(P, e) == Leave(P, e, {"Group", "Alternative"})

\* on_capturing_group_enter(start, name): the node gets its parent, and is
\* pushed neither to the parent's elements nor to _capturing_groups.
on_capturing_group_enter(P, e) ==
    IF ~NodeIs(P, {"Alternative"}) THEN PFail(P)
    ELSE SetNode(alloc_node(P, new_capturing_group(P.ps._node, e.start,
                                                   e.start, <<>>, e.x[1],
                                                   <<>>, <<>>)),
                 NextId(P))

\* on_capturing_group_leave(start, end, name)
on_capturing_group_leave(P, e) ==
    Leave(P, e, {"CapturingGroup", "Alternative"})

\* on_quantifier with the raw text cut at the quantifier's own start
QuantifierRawFromStart(source, element_start, start, end) ==
    Slice(source, start, end)

\* source[element.start..end] of on_quantifier
QuantifierRaw(source, element_start, start, end) ==
    Slice(source, element_start, end)

\* on_quantifier from the pop on; element is the last element of parent.
QuantifierOf(P, e, parent, element) ==
    IF \/ P.arena[element].type = "Quantifier"
       \/ /\ P.arena[element].type = "Assertion"
          /\ P.arena[element].kind = "Lookahead"
    THEN PFail(Pop(P, parent))
    ELSE IF ~SliceOk(P.ps.source, P.arena[element].start, e.end)
    THEN PFail(Pop(P, parent))
    ELSE set_parent(
           Push(alloc_node(Pop(P, parent),
                           new_quantifier(parent, P.arena[element].start,
                                          e.end,
                                          QuantifierRaw(P.ps.source,
                                            P.arena[element].start,
                                            e.start, e.end),
                                          e.x[1], e.x[2], e.x[3], element)),
                parent, NextId(P)),
           element, NextId(P))

\* on_quantifier(start, end, min, max, greedy)
on_quantifier(P, e) ==
    IF ~NodeIs(P, {"Alternative"}) THEN PFail(P)
    ELSE IF P.arena[P.ps._node].elements = <<>> THEN PFail(P)
    ELSE QuantifierOf(P, e, P.ps._node, Last(P.arena[P.ps._node].elements))

\* on_lookaround_assertion_enter(start, kind, negate)
on_lookaround_assertion_enter(P, e) ==
    IF ~NodeIs(P, {"Alternative"}) THEN PFail(P)
    ELSE Push(SetNode(alloc_node(P, new_assertion(P.ps._node, e.start,
                                                  e.start, <<>>, e.x[1],
                                                  e.x[2], SomeVec(<<>>))),
                      NextId(P)),
              P.ps._node, NextId(P))

\* on_lookaround_assertion_leave(start, end, kind, negate)
on_lookaround_assertion_leave(P, e) ==
    Leave(P, e, {"Assertion", "Alternative"})

\* A callback that allocates a leaf: the assert! on the parent's variant,
\* the node with raw = source[start..end], the push.  pushes are the
\* variants the callback's push reaches: as_alternative_mut() on another
\* variant is unreachable!().
Leaf(P, e, types, pushes, node) ==
    IF ~NodeIs(P, types) THEN PFail(P)
    ELSE IF ~SliceOk(P.ps.source, e.start, e.end) THEN PFail(P)
    ELSE IF P.arena[P.ps._node].type \notin pushes
    THEN PFail(alloc_node(P, node))
    ELSE Push(alloc_node(P, node), P.ps._node, NextId(P))

\* on_edge_assertion(start, end, kind)
on_edge_assertion(P, e) ==
    Leaf(P, e, {"Alternative"}, {"Alternative"},
         new_assertion(P.ps._node, e.start, e.end,
                       Slice(P.ps.source, e.start, e.end), e.x[1], None,
                       NoVec))

\* on_word_boundary_assertion(start, end, kind, negate)
on_word_boundary_assertion(P, e) ==
    Leaf(P, e, {"Alternative"}, {"Alternative"},
         new_assertion(P.ps._node, e.start, e.end,
                       Slice(P.ps.source, e.start, e.end), e.x[1], e.x[2],
                       NoVec))

\* on_any_character_set(start, end, kind)
on_any_character_set(P, e) ==
    Leaf(P, e, {"Alternative"}, {"Alternative"},
         new_character_set(P.ps._node, e.start, e.end,
                           Slice(P.ps.source, e.start, e.end), e.x[1], None,
                           None, None, None))

\* on_escape_character_set(start, end, kind, negate): the assert! lets a
\* CharacterClass parent through, the push is as_alternative_mut().
on_escape_character_set(P, e) ==
    Leaf(P, e, {"Alternative", "CharacterClass"}, {"Alternative"},
         new_character_set(P.ps._node, e.start, e.end,
                           Slice(P.ps.source, e.start, e.end), e.x[1], None,
                           None, None, e.x[2]))

\* on_character(start, end, value)
on_character(P, e) ==
    Leaf(P, e, {"Alternative", "CharacterClass", "StringAlternative"},
         {"Alternative", "CharacterClass", "StringAlternative"},
         new_character(P.ps._node, e.start, e.end,
                       Slice(P.ps.source, e.start, e.end), e.x[1]))

\* self._backreferences.borrow_mut().push(node)
Pending(P, id) ==
    IF P.fail THEN P ELSE [P EXCEPT !.ps._backreferences = Append(@, id)]

\* on_backreference(start, end, ref_)
on_backreference(P, e) ==
    Pending(Leaf(P, e, {"Alternative"}, {"Alternative"},
                 new_backreference(P.ps._node, e.start, e.end,
                                   Slice(P.ps.source, e.start, e.end),
                                   KeyIndex(e.x[1]), None)),
            NextId(P))

\* on_character_class_enter(start, negate, unicode_sets)
on_character_class_enter(P, e) ==
    IF ~NodeIs(P, {"Alternative", "CharacterClass"}) THEN PFail(P)
    ELSE IF /\ P.arena[P.ps._node].type = "CharacterClass"
            /\ ~(P.arena[P.ps._node].unicode_sets /\ e.x[2])
    THEN PFail(P)
    ELSE Push(SetNode(alloc_node(P, new_character_class(P.ps._node, e.start,
                                   e.start, <<>>, e.x[2], e.x[1], <<>>)),
                      NextId(P)),
              P.ps._node, NextId(P))

\* _expression_buffer_map: the pairs <<CharacterClass id, expression id>>
MapGet(m, k) ==
    IF \E p \in m : p[1] = k THEN (CHOOSE p \in m : p[1] = k)[2] ELSE None

MapRemove(m, k) == {p \in m : p[1] # k}

MapInsert(m, k, x) == MapRemove(m, k) \cup {<<k, x>>}

\* assert!(Some(node) == parent.elements.pop())
PopIs(P, parent, node) ==
    IF P.fail THEN P
    ELSE IF Children(P.arena[parent]) = <<>> THEN PFail(P)
    ELSE IF Last(P.arena[parent].elements) # node THEN PFail(Pop(P, parent))
    ELSE Pop(P, parent)

\* on_character_class_leave once the class has an expression in
\* _expression_buffer_map: the arguments of alloc_node borrow the arena
\* (self._arena.node(node).start(), ...) until the end of the statement.
Splice(P, node, parent, expression) ==
    IF P.arena[node].elements # <<>> THEN PFail(P)
    ELSE Push(
           PopIs(
             set_parent(
               alloc_node_borrowed(
                 [P EXCEPT !.ps._expression_buffer_map = MapRemove(@, node)],
                 new_expression_character_class(parent, P.arena[node].start,
                   P.arena[node].end, P.arena[node].raw,
                   P.arena[node].negate, expression)),
               expression, NextId(P)),
             parent, node),
           parent, NextId(P))

\* on_character_class_leave after the two assert!s
ClassLeave(P, e, node, parent) ==
    (CHOOSE only \in {
       IF Q.fail \/ MapGet(Q.ps._expression_buffer_map, node) = None THEN Q
       ELSE Splice(Q, node, parent,
                   MapGet(Q.ps._expression_buffer_map, node))
     : Q \in {SetNode(Finish(P, node, e.start, e.end), parent)} } : TRUE)

\* on_character_class_leave(start, end, negate)
on_character_class_leave(P, e) ==
    IF ~NodeIs(P, {"CharacterClass"}) THEN PFail(P)
    ELSE IF P.arena[P.ps._node].parent = None THEN PFail(P)
    ELSE IF P.arena[P.arena[P.ps._node].parent].type
              \notin {"Alternative", "CharacterClass"}
    THEN PFail(P)
    ELSE ClassLeave(P, e, P.ps._node, P.arena[P.ps._node].parent)

\* on_character_class_range from `let min = ...pop().unwrap()` on
RangeMin(P, e, parent, max) ==
    IF P.arena[parent].elements = <<>> THEN PFail(P)
    ELSE IF P.arena[Last(P.arena[parent].elements)].type # "Character"
    THEN PFail(Pop(P, parent))
    ELSE IF ~SliceOk(P.ps.source, e.start, e.end) THEN PFail(Pop(P, parent))
    ELSE Push(
           set_parent(
             set_parent(
               alloc_node(Pop(P, parent),
                          new_character_class_range(parent, e.start, e.end,
                            Slice(P.ps.source, e.start, e.end),
                            Last(P.arena[parent].elements), max)),
               Last(P.arena[parent].elements), NextId(P)),
             max, NextId(P)),
           parent, NextId(P))

\* on_character_class_range, the hyphen popped when the class is not a
\* unicode_sets class
RangeHyphen(P, e, parent, max) ==
    IF P.arena[parent].elements = <<>> THEN PFail(P)
    ELSE IF ~(/\ P.arena[Last(P.arena[parent].elements)].type = "Character"
              /\ P.arena[Last(P.arena[parent].elements)].value
                   = HYPHEN_MINUS)
    THEN PFail(Pop(P, parent))
    ELSE RangeMin(Pop(P, parent), e, parent, max)

\* on_character_class_range(start, end, min, max)
on_character_class_range(P, e) ==
    IF ~NodeIs(P, {"CharacterClass"}) THEN PFail(P)
    ELSE IF P.arena[P.ps._node].elements = <<>> THEN PFail(P)
    ELSE IF P.arena[Last(P.arena[P.ps._node].elements)].type # "Character"
    THEN PFail(Pop(P, P.ps._node))
    ELSE IF ~P.arena[P.ps._node].unicode_sets
    THEN RangeHyphen(Pop(P, P.ps._node), e, P.ps._node,
                     Last(P.arena[P.ps._node].elements))
    ELSE RangeMin(Pop(P, P.ps._node), e, P.ps._node,
                  Last(P.arena[P.ps._node].elements))

\* parser.rs, is_class_set_operand
is_class_set_operand(node) ==
    node.type \in {"Character", "CharacterSet", "CharacterClass",
                   "ExpressionCharacterClass", "ClassStringDisjunction"}

\* on_class_intersection and on_class_subtraction from the assert!s on
\* left and right on; variant is the node made, other the variant left
\* must not be.
ClassSetNode(P, e, parent, left, right, variant, other) ==
    IF P.arena[left].type = other THEN PFail(P)
    ELSE IF /\ P.arena[left].type # variant
            /\ ~is_class_set_operand(P.arena[left])
    THEN PFail(P)
    ELSE IF ~is_class_set_operand(P.arena[right]) THEN PFail(P)
    ELSE IF ~SliceOk(P.ps.source, e.start, e.end) THEN PFail(P)
    ELSE [set_parent(
            set_parent(
              alloc_node(P,
                IF variant = "ClassIntersection"
                THEN new_class_intersection(parent, e.start, e.end,
                       Slice(P.ps.source, e.start, e.end), left, right)
                ELSE new_class_subtraction(parent, e.start, e.end,
                       Slice(P.ps.source, e.start, e.end), left, right)),
              left, NextId(P)),
            right, NextId(P))
            EXCEPT !.ps._expression_buffer_map =
                      MapInsert(@, parent, NextId(P))]

\* left: the expression the class has in _expression_buffer_map, or else
\* elements.pop().unwrap()
ClassSetLeft(P, e, parent, right, variant, other) ==
    IF MapGet(P.ps._expression_buffer_map, parent) # None
    THEN ClassSetNode(P, e, parent,
                      MapGet(P.ps._expression_buffer_map, parent), right,
                      variant, other)
    ELSE IF P.arena[parent].elements = <<>> THEN PFail(P)
    ELSE ClassSetNode(Pop(P, parent), e, parent,
                      Last(P.arena[parent].elements), right, variant, other)

ClassSetOperation(P, e, variant, other) ==
    IF ~NodeIs(P, {"CharacterClass"}) THEN PFail(P)
    ELSE IF ~P.arena[P.ps._node].unicode_sets THEN PFail(P)
    ELSE IF P.arena[P.ps._node].elements = <<>> THEN PFail(P)
    ELSE ClassSetLeft(Pop(P, P.ps._node), e, P.ps._node,
                      Last(P.arena[P.ps._node].elements), variant, other)

\* on_class_intersection(start, end)
on_class_intersection(P, e) ==
    ClassSetOperation(P, e, "ClassIntersection", "ClassSubtraction")

\* on_class_subtraction(start, end)
on_class_subtraction(P, e) ==
    ClassSetOperation(P, e, "ClassSubtraction", "ClassIntersection")

\* on_class_string_disjunction_enter(start)
on_class_string_disjunction_enter(P, e) ==
    IF ~NodeIs(P, {"CharacterClass"}) THEN PFail(P)
    ELSE IF ~P.arena[P.ps._node].unicode_sets THEN PFail(P)
    ELSE Push(SetNode(alloc_node(P, new_class_string_disjunction(
                                      P.ps._node, e.start, e.start, <<>>,
                                      <<>>)),
                      NextId(P)),
              P.ps._node, NextId(P))

\* new_reg_exp_literal of ast.rs
new_reg_exp_literal(parent, start, end, raw, pattern, flags) ==
    NodeBase(parent, start, end, raw)
      @@ [type |-> "RegExpLiteral", pattern |-> pattern, flags |-> flags]

----------------------------------------------------------------------------
(* The parser specification: RegExpParser::new, parse_literal over a whole *)
(* buffer, and one action per callback of the event sink.  The validator   *)
(* calls the callbacks while it runs and they do not change what it does;  *)
(* queue holds the events of the run in their order and each callback     *)
(* action takes the first.  outcome is what the validator returns when no  *)
(* callback panics.                                                        *)

LATEST_ECMA_VERSION == 2024

\* The longest literal body, in tokens.
MaxTokens == 4

\* The bodies are made of the tokens of one case, the flags are the case's.
ParserCases ==
    {[tokens |-> {<<LEFT_PARENTHESIS>>, <<RIGHT_PARENTHESIS>>,
                  <<REVERSE_SOLIDUS, DIGIT_ONE>>, <<LATIN_SMALL_LETTER_A>>,
                  <<ASTERISK>>},
      flags |-> <<>>],
     [tokens |-> {<<LEFT_PARENTHESIS, QUESTION_MARK, COLON>>,
                  <<LEFT_PARENTHESIS, QUESTION_MARK, EQUALS_SIGN>>,
                  <<RIGHT_PARENTHESIS>>, <<LATIN_SMALL_LETTER_A>>,
                  <<ASTERISK>>},
      flags |-> <<>>],
     [tokens |-> {<<LEFT_PARENTHESIS, QUESTION_MARK, LESS_THAN_SIGN,
                    EXCLAMATION_MARK>>,
                  <<RIGHT_PARENTHESIS>>, <<LATIN_SMALL_LETTER_A>>,
                  <<VERTICAL_LINE>>, <<QUESTION_MARK>>},
      flags |-> <<>>],
     [tokens |-> {<<LEFT_SQUARE_BRACKET, LATIN_SMALL_LETTER_A>>,
                  <<LEFT_SQUARE_BRACKET, CIRCUMFLEX_ACCENT>>,
                  <<RIGHT_SQUARE_BRACKET>>,
                  <<HYPHEN_MINUS, LATIN_SMALL_LETTER_A>>,
                  <<REVERSE_SOLIDUS, LATIN_SMALL_LETTER_D>>},
      flags |-> <<>>],
     [tokens |-> {<<CIRCUMFLEX_ACCENT>>, <<DOLLAR_SIGN>>,
                  <<REVERSE_SOLIDUS, LATIN_SMALL_LETTER_B>>, <<FULL_STOP>>,
                  <<REVERSE_SOLIDUS, LATIN_CAPITAL_LETTER_D>>},
      flags |-> <<>>],
     [tokens |-> {<<LEFT_SQUARE_BRACKET, LATIN_SMALL_LETTER_A>>,
                  <<RIGHT_SQUARE_BRACKET>>, <<LATIN_SMALL_LETTER_A>>,
                  <<AMPERSAND, AMPERSAND, LATIN_SMALL_LETTER_A>>,
                  <<HYPHEN_MINUS, HYPHEN_MINUS, LATIN_SMALL_LETTER_A>>},
      flags |-> <<LATIN_SMALL_LETTER_V>>],
     [tokens |-> {<<LEFT_SQUARE_BRACKET, LATIN_SMALL_LETTER_A>>,
                  <<RIGHT_SQUARE_BRACKET>>, <<AMPERSAND, AMPERSAND>>,
                  <<HYPHEN_MINUS, LATIN_SMALL_LETTER_A>>,
                  <<REVERSE_SOLIDUS, LATIN_SMALL_LETTER_Q,
                    LEFT_CURLY_BRACKET>>},
      flags |-> <<LATIN_SMALL_LETTER_V>>],
     [tokens |-> {<<LATIN_SMALL_LETTER_A>>, <<LeadSurrogateMin>>,
                  <<TrailSurrogateMin>>, <<ASTERISK>>},
      flags |-> <<LATIN_SMALL_LETTER_U>>],
     [tokens |-> {<<LEFT_SQUARE_BRACKET, LATIN_SMALL_LETTER_A>>,
                  <<LEFT_SQUARE_BRACKET, LATIN_SMALL_LETTER_B>>,
                  <<HYPHEN_MINUS, LATIN_SMALL_LETTER_A>>,
                  <<HYPHEN_MINUS, LATIN_SMALL_LETTER_B>>,
                  <<RIGHT_SQUARE_BRACKET>>},
      flags |-> <<>>],
     [tokens |-> {<<LEFT_SQUARE_BRACKET, LATIN_SMALL_LETTER_A>>,
                  <<LEFT_SQUARE_BRACKET, LATIN_SMALL_LETTER_B>>,
                  <<HYPHEN_MINUS, LATIN_SMALL_LETTER_A>>,
                  <<HYPHEN_MINUS, LATIN_SMALL_LETTER_B>>,
                  <<RIGHT_SQUARE_BRACKET>>},
      flags |-> <<LATIN_SMALL_LETTER_V>>]}

ParserSources ==
    UNION {{<<SOLIDUS>> \o Concat(ts) \o <<SOLIDUS>> \o c.flags
              : ts \in SeqsUpTo(c.tokens, MaxTokens)}
           : c \in ParserCases}

ParserFrame == UNCHANGED <<reader, eaten, peeked>>

\* RegExpParser::new(arena, options), the version left to its default
NewParser ==
    /\ call = [op |-> "none"]
    /\ \E strict_ \in BOOLEAN :
         /\ call' = [op |-> "new", strict |-> strict_,
                      ecma |-> LATEST_ECMA_VERSION]
         /\ pstate' = NewParserState(strict_, LATEST_ECMA_VERSION)
    /\ UNCHANGED <<outcome, log, queue, arena, pfail>>
    /\ ParserFrame

\* parse_literal(source, None, None): the state takes the source and the
\* validator validates the literal, the state being its event sink.
ParseLiteral ==
    /\ call.op = "new"
    /\ \E source \in ParserSources :
         \E v \in {validate_literal(
                     NewValidator(pstate.strict, pstate.ecma_version),
                     source, 0, Len(source))} :
           /\ call' = [op |-> "parse_literal", source |-> source,
                        start |-> 0, end |-> Len(source),
                        flags |-> NoPatternFlags,
                        strict |-> call.strict, ecma |-> call.ecma]
           /\ pstate' = [pstate EXCEPT !.source = source]
           /\ outcome' = Outcome(v)
           /\ queue' = v.ev
    /\ UNCHANGED <<log, arena, pfail>>
    /\ ParserFrame

\* parse_literal after the validator has returned Ok: the RegExpLiteral
\* node over self.pattern() and self.flags().
ParseLiteralReturn ==
    /\ call.op = "parse_literal"
    /\ outcome.st = "ok"
    /\ queue = <<>>
    /\ ~pfail
    /\ call' = [call EXCEPT !.op = "parsed"]
    /\ IF pstate._node = None \/ pstate._flags = None
       THEN pfail' = TRUE /\ arena' = arena
       ELSE /\ pfail' = FALSE
            /\ arena' =
                 [Append(arena,
                         [new_reg_exp_literal(None, call.start, call.end,
                            Slice(call.source, call.start, call.end),
                            pstate._node, pstate._flags)
                            EXCEPT !._arena_id = Len(arena) + 1])
                    EXCEPT ![pstate._node].parent = Len(arena) + 1,
                           ![pstate._flags].parent = Len(arena) + 1]
    /\ UNCHANGED <<outcome, log, queue, pstate>>
    /\ ParserFrame

\* The validator calls the callback `name` next.
Receives(name) ==
    /\ call.op = "parse_literal"
    /\ ~pfail
    /\ queue # <<>>
    /\ Head(queue).ev = name

\* The callback has run and left P.
Delivered(P) ==
    /\ arena' = P.arena
    /\ pstate' = P.ps
    /\ pfail' = P.fail
    /\ queue' = Tail(queue)
    /\ log' = Append(log, Head(queue))
    /\ UNCHANGED <<call, outcome>>
    /\ ParserFrame

\* validator::Options, the callbacks RegExpParserState leaves at their
\* default, which is empty.
OnLiteralEnter ==
    Receives("on_literal_enter") /\ Delivered(Callback(arena, pstate))

OnLiteralLeave ==
    Receives("on_literal_leave") /\ Delivered(Callback(arena, pstate))

OnDisjunctionEnter ==
    Receives("on_disjunction_enter") /\ Delivered(Callback(arena, pstate))

OnDisjunctionLeave ==
    Receives("on_disjunction_leave") /\ Delivered(Callback(arena, pstate))

OnRegExpFlags ==
    /\ Receives("on_reg_exp_flags")
    /\ Delivered(on_reg_exp_flags(Callback(arena, pstate), Head(queue)))

OnPatternEnter ==
    /\ Receives("on_pattern_enter")
    /\ Delivered(on_pattern_enter(Callback(arena, pstate), Head(queue)))

OnPatternLeave ==
    /\ Receives("on_pattern_leave")
    /\ Delivered(on_pattern_leave(Callback(arena, pstate), Head(queue)))

OnAlternativeEnter ==
    /\ Receives("on_alternative_enter")
    /\ Delivered(on_alternative_enter(Callback(arena, pstate), Head(queue)))

OnAlternativeLeave ==
    /\ Receives("on_alternative_leave")
    /\ Delivered(on_alternative_leave(Callback(arena, pstate), Head(queue)))

OnGroupEnter ==
    /\ Receives("on_group_enter")
    /\ Delivered(on_group_enter(Callback(arena, pstate), Head(queue)))

OnGroupLeave ==
    /\ Receives("on_group_leave")
    /\ Delivered(on_group_leave(Callback(arena, pstate), Head(queue)))

OnCapturingGroupEnter ==
    /\ Receives("on_capturing_group_enter")
    /\ Delivered(on_capturing_group_enter(Callback(arena, pstate),
                                          Head(queue)))

OnCapturingGroupLeave ==
    /\ Receives("on_capturing_group_leave")
    /\ Delivered(on_capturing_group_leave(Callback(arena, pstate),
                                          Head(queue)))

OnQuantifier ==
    /\ Receives("on_quantifier")
    /\ Delivered(on_quantifier(Callback(arena, pstate), Head(queue)))

OnLookaroundAssertionEnter ==
    /\ Receives("on_lookaround_assertion_enter")
    /\ Delivered(on_lookaround_assertion_enter(Callback(arena, pstate),
                                               Head(queue)))

OnLookaroundAssertionLeave ==
    /\ Receives("on_lookaround_assertion_leave")
    /\ Delivered(on_lookaround_assertion_leave(Callback(arena, pstate),
                                               Head(queue)))

OnEdgeAssertion ==
    /\ Receives("on_edge_assertion")
    /\ Delivered(on_edge_assertion(Callback(arena, pstate), Head(queue)))

OnWordBoundaryAssertion ==
    /\ Receives("on_word_boundary_assertion")
    /\ Delivered(on_word_boundary_assertion(Callback(arena, pstate),
                                            Head(queue)))

OnAnyCharacterSet ==
    /\ Receives("on_any_character_set")
    /\ Delivered(on_any_character_set(Callback(arena, pstate), Head(queue)))

OnEscapeCharacterSet ==
    /\ Receives("on_escape_character_set")
    /\ Delivered(on_escape_character_set(Callback(arena, pstate),
                                         Head(queue)))

OnCharacter ==
    /\ Receives("on_character")
    /\ Delivered(on_character(Callback(arena, pstate), Head(queue)))

OnBackreference ==
    /\ Receives("on_backreference")
    /\ Delivered(on_backreference(Callback(arena, pstate), Head(queue)))

OnCharacterClassEnter ==
    /\ Receives("on_character_class_enter")
    /\ Delivered(on_character_class_enter(Callback(arena, pstate),
                                          Head(queue)))

OnCharacterClassLeave ==
    /\ Receives("on_character_class_leave")
    /\ Delivered(on_character_class_leave(Callback(arena, pstate),
                                          Head(queue)))

OnCharacterClassRange ==
    /\ Receives("on_character_class_range")
    /\ Delivered(on_character_class_range(Callback(arena, pstate),
                                          Head(queue)))

OnClassIntersection ==
    /\ Receives("on_class_intersection")
    /\ Delivered(on_class_intersection(Callback(arena, pstate), Head(queue)))

OnClassSubtraction ==
    /\ Receives("on_class_subtraction")
    /\ Delivered(on_class_subtraction(Callback(arena, pstate), Head(queue)))

OnClassStringDisjunctionEnter ==
    /\ Receives("on_class_string_disjunction_enter")
    /\ Delivered(on_class_string_disjunction_enter(Callback(arena, pstate),
                                                   Head(queue)))

InitParser == IdleReader /\ IdleValidator /\ IdleParser

NextParser ==
    \/ NewParser
    \/ ParseLiteral
    \/ ParseLiteralReturn
    \/ OnLiteralEnter
    \/ OnLiteralLeave
    \/ OnDisjunctionEnter
    \/ OnDisjunctionLeave
    \/ OnRegExpFlags
    \/ OnPatternEnter
    \/ OnPatternLeave
    \/ OnAlternativeEnter
    \/ OnAlternativeLeave
    \/ OnGroupEnter
    \/ OnGroupLeave
    \/ OnCapturingGroupEnter
    \/ OnCapturingGroupLeave
    \/ OnQuantifier
    \/ OnLookaroundAssertionEnter
    \/ OnLookaroundAssertionLeave
    \/ OnEdgeAssertion
    \/ OnWordBoundaryAssertion
    \/ OnAnyCharacterSet
    \/ OnEscapeCharacterSet
    \/ OnCharacter
    \/ OnBackreference
    \/ OnCharacterClassEnter
    \/ OnCharacterClassLeave
    \/ OnCharacterClassRange
    \/ OnClassIntersection
    \/ OnClassSubtraction
    \/ OnClassStringDisjunctionEnter

SpecParser == InitParser /\ [][NextParser]_vars

----------------------------------------------------------------------------
(* The visitor, src/src/visitor.rs.  visit(a, node) is the sequence of the *)
(* handler calls RegExpVisitor::visit makes for the node of the arena a,   *)
(* each call with the handler's name and the node it is given.  The as_x() *)
(* casts of the visit_x methods succeed: visit dispatches on the variant,  *)
(* and a RegExpLiteral's pattern is a Pattern.                             *)

\* new_string_alternative of ast.rs
new_string_alternative(parent, start, end, raw, elements) ==
    NodeBase(parent, start, end, raw)
      @@ [type |-> "StringAlternative", elements |-> elements]

\* self._handlers.on_x(node)
Handler(name, node) == <<[ev |-> name, node |-> node]>>

RECURSIVE visit(_, _)
RECURSIVE VisitEach(_, _)

\* ids.iter().for_each(|&node| self.visit(node))
VisitEach(a, ids) ==
    IF ids = <<>> THEN <<>>
    ELSE visit(a, Head(ids)) \o VisitEach(a, Tail(ids))

visit_alternative(a, node) ==
    Handler("on_alternative_enter", node)
      \o VisitEach(a, a[node].elements)
      \o Handler("on_alternative_leave", node)

visit_assertion(a, node) ==
    Handler("on_assertion_enter", node)
      \o (IF a[node].alternatives.some
          THEN VisitEach(a, a[node].alternatives.v)
          ELSE <<>>)
      \o Handler("on_assertion_leave", node)

visit_backreference(a, node) ==
    Handler("on_backreference_enter", node)
      \o Handler("on_backreference_leave", node)

visit_capturing_group(a, node) ==
    Handler("on_capturing_group_enter", node)
      \o VisitEach(a, a[node].alternatives)
      \o Handler("on_capturing_group_leave", node)

visit_character(a, node) ==
    Handler("on_character_enter", node)
      \o Handler("on_character_leave", node)

visit_character_class(a, node) ==
    Handler("on_character_class_enter", node)
      \o VisitEach(a, a[node].elements)
      \o Handler("on_character_class_leave", node)

\* The mutant of visit_character_class_range: max before min.
visit_character_class_range_max_first(a, node) ==
    Handler("on_character_class_range_enter", node)
      \o visit_character(a, a[node].max)
      \o visit_character(a, a[node].min)
      \o Handler("on_character_class_range_leave", node)

visit_character_class_range(a, node) ==
    Handler("on_character_class_range_enter", node)
      \o visit_character(a, a[node].min)
      \o visit_character(a, a[node].max)
      \o Handler("on_character_class_range_leave", node)

visit_character_set(a, node) ==
    Handler("on_character_set_enter", node)
      \o Handler("on_character_set_leave", node)

visit_class_intersection(a, node) ==
    Handler("on_class_intersection_enter", node)
      \o visit(a, a[node].left)
      \o visit(a, a[node].right)
      \o Handler("on_class_intersection_leave", node)

visit_class_string_disjunction(a, node) ==
    Handler("on_class_string_disjunction_enter", node)
      \o VisitEach(a, a[node].alternatives)
      \o Handler("on_class_string_disjunction_leave", node)

visit_class_subtraction(a, node) ==
    Handler("on_class_subtraction_enter", node)
      \o visit(a, a[node].left)
      \o visit(a, a[node].right)
      \o Handler("on_class_subtraction_leave", node)

visit_expression_character_class(a, node) ==
    Handler("on_expression_character_class_enter", node)
      \o visit(a, a[node].expression)
      \o Handler("on_expression_character_class_leave", node)

visit_flags(a, node) ==
    Handler("on_flags_enter", node) \o Handler("on_flags_leave", node)

visit_group(a, node) ==
    Handler("on_group_enter", node)
      \o VisitEach(a, a[node].alternatives)
      \o Handler("on_group_leave", node)

visit_pattern(a, node) ==
    Handler("on_pattern_enter", node)
      \o VisitEach(a, a[node].alternatives)
      \o Handler("on_pattern_leave", node)

visit_quantifier(a, node) ==
    Handler("on_quantifier_enter", node)
      \o visit(a, a[node].element)
      \o Handler("on_quantifier_leave", node)

visit_reg_exp_literal(a, node) ==
    Handler("on_reg_exp_literal_enter", node)
      \o visit_pattern(a, a[node].pattern)
      \o visit_flags(a, a[node].flags)
      \o Handler("on_reg_exp_literal_leave", node)

visit_string_alternative(a, node) ==
    Handler("on_string_alternative_enter", node)
      \o VisitEach(a, a[node].elements)
      \o Handler("on_string_alternative_leave", node)

\* RegExpVisitor::visit: the match on the node's variant
visit(a, node) ==
    CASE a[node].type = "Alternative" -> visit_alternative(a, node)
      [] a[node].type = "Assertion" -> visit_assertion(a, node)
      [] a[node].type = "Backreference" -> visit_backreference(a, node)
      [] a[node].type = "CapturingGroup" -> visit_capturing_group(a, node)
      [] a[node].type = "Character" -> visit_character(a, node)
      [] a[node].type = "CharacterClass" -> visit_character_class(a, node)
      [] a[node].type = "CharacterClassRange"
           -> visit_character_class_range(a, node)
      [] a[node].type = "CharacterSet" -> visit_character_set(a, node)
      [] a[node].type = "ClassIntersection"
           -> visit_class_intersection(a, node)
      [] a[node].type = "ClassStringDisjunction"
           -> visit_class_string_disjunction(a, node)
      [] a[node].type = "ClassSubtraction" -> visit_class_subtraction(a, node)
      [] a[node].type = "ExpressionCharacterClass"
           -> visit_expression_character_class(a, node)
      [] a[node].type = "Flags" -> visit_flags(a, node)
      [] a[node].type = "Group" -> visit_group(a, node)
      [] a[node].type = "Pattern" -> visit_pattern(a, node)
      [] a[node].type = "Quantifier" -> visit_quantifier(a, node)
      [] a[node].type = "RegExpLiteral" -> visit_reg_exp_literal(a, node)
      [] a[node].type = "StringAlternative"
           -> visit_string_alternative(a, node)

----------------------------------------------------------------------------
(* The visitor specification: trees of ast.rs nodes are built bottom up in *)
(* an arena, the children of a node before the node, and visit is called   *)
(* on a node of the arena.                                                 *)

MaxNodes == 4

MaxChildren == 2

NodeKinds ==
    {"Alternative", "Assertion", "Backreference", "CapturingGroup",
     "Character", "CharacterClass", "CharacterClassRange", "CharacterSet",
     "ClassIntersection", "ClassStringDisjunction", "ClassSubtraction",
     "ExpressionCharacterClass", "Flags", "Group", "Pattern", "Quantifier",
     "RegExpLiteral", "StringAlternative"}

\* ast.rs: the variants the comment of a child field names, position by
\* position for the fields of one node and for every element of a vector.
ClassSetOperandKinds ==
    {"Character", "CharacterSet", "CharacterClass", "ClassStringDisjunction",
     "ExpressionCharacterClass"}

FieldKinds(kind, k) ==
    CASE kind \in {"Pattern", "Group", "CapturingGroup", "Assertion"}
           -> {"Alternative"}
      [] kind = "Alternative"
           -> {"Assertion", "Quantifier", "Group", "CapturingGroup",
               "CharacterClass", "ExpressionCharacterClass", "CharacterSet",
               "Character", "Backreference"}
      [] kind = "Quantifier"
           -> {"Assertion", "Group", "CapturingGroup", "CharacterClass",
               "ExpressionCharacterClass", "CharacterSet", "Character",
               "Backreference"}
      [] kind = "CharacterClass"
           -> {"Character", "CharacterSet", "CharacterClassRange",
               "CharacterClass", "ClassStringDisjunction",
               "ExpressionCharacterClass"}
      [] kind = "CharacterClassRange" -> {"Character"}
      [] kind = "ExpressionCharacterClass"
           -> {"ClassIntersection", "ClassSubtraction"}
      [] kind = "ClassIntersection"
           -> IF k = 1 THEN ClassSetOperandKinds \cup {"ClassIntersection"}
              ELSE ClassSetOperandKinds
      [] kind = "ClassSubtraction"
           -> IF k = 1 THEN ClassSetOperandKinds \cup {"ClassSubtraction"}
              ELSE ClassSetOperandKinds
      [] kind = "ClassStringDisjunction" -> {"StringAlternative"}
      [] kind = "StringAlternative" -> {"Character"}
      [] kind = "RegExpLiteral"
           -> IF k = 1 THEN {"Pattern"} ELSE {"Flags"}
      [] OTHER -> {}

\* How many children a node of the kind may have.
Arities(kind) ==
    CASE kind \in {"Alternative", "CharacterClass", "StringAlternative",
                   "Assertion"} -> 0..MaxChildren
      [] kind \in {"Pattern", "Group", "CapturingGroup",
                   "ClassStringDisjunction"} -> 1..MaxChildren
      [] kind \in {"Quantifier", "ExpressionCharacterClass"} -> {1}
      [] kind \in {"CharacterClassRange", "ClassIntersection",
                   "ClassSubtraction", "RegExpLiteral"} -> {2}
      [] OTHER -> {0}

\* The nodes of the arena that have no parent yet, in the order they were
\* made.
RECURSIVE RootsFrom(_, _)
RootsFrom(a, id) ==
    IF id > Len(a) THEN <<>>
    ELSE IF a[id].parent = None THEN <<id>> \o RootsFrom(a, id + 1)
    ELSE RootsFrom(a, id + 1)

Roots(a) == RootsFrom(a, 1)

LastRoots(a, k) == SubSeq(Roots(a), Len(Roots(a)) - k + 1, Len(Roots(a)))

\* The node of the kind over the children kids, by the constructors of
\* ast.rs; an Assertion of no children is an edge assertion.
NodeOver(kind, kids) ==
    CASE kind = "Alternative" -> new_alternative(None, 0, 0, <<>>, kids)
      [] kind = "Assertion"
           -> IF kids = <<>>
              THEN new_assertion(None, 0, 0, <<>>, "start", None, NoVec)
              ELSE new_assertion(None, 0, 0, <<>>, "lookahead", FALSE,
                                 SomeVec(kids))
      [] kind = "Backreference"
           -> new_backreference(None, 0, 0, <<>>, KeyIndex(1), None)
      [] kind = "CapturingGroup"
           -> new_capturing_group(None, 0, 0, <<>>, None, kids, <<>>)
      [] kind = "Character"
           -> new_character(None, 0, 0, <<>>, LATIN_SMALL_LETTER_A)
      [] kind = "CharacterClass"
           -> new_character_class(None, 0, 0, <<>>, FALSE, FALSE, kids)
      [] kind = "CharacterClassRange"
           -> new_character_class_range(None, 0, 0, <<>>, kids[1], kids[2])
      [] kind = "CharacterSet"
           -> new_character_set(None, 0, 0, <<>>, "any", None, None, None,
                                None)
      [] kind = "ClassIntersection"
           -> new_class_intersection(None, 0, 0, <<>>, kids[1], kids[2])
      [] kind = "ClassStringDisjunction"
           -> new_class_string_disjunction(None, 0, 0, <<>>, kids)
      [] kind = "ClassSubtraction"
           -> new_class_subtraction(None, 0, 0, <<>>, kids[1], kids[2])
      [] kind = "ExpressionCharacterClass"
           -> new_expression_character_class(None, 0, 0, <<>>, FALSE,
                                             kids[1])
      [] kind = "Flags" -> new_flags(None, 0, 0, <<>>, NoFlags)
      [] kind = "Group" -> new_group(None, 0, 0, <<>>, kids)
      [] kind = "Pattern" -> new_pattern(None, 0, 0, <<>>, kids)
      [] kind = "Quantifier"
           -> new_quantifier(None, 0, 0, <<>>, 0, 1, TRUE, kids[1])
      [] kind = "RegExpLiteral"
           -> new_reg_exp_literal(None, 0, 0, <<>>, kids[1], kids[2])
      [] kind = "StringAlternative"
           -> new_string_alternative(None, 0, 0, <<>>, kids)

\* alloc_node of the node, and set_parent of its children.
AllocOver(a, kind, kids) ==
    [id \in 1..(Len(a) + 1) |->
       IF id = Len(a) + 1
       THEN [NodeOver(kind, kids) EXCEPT !._arena_id = id]
       ELSE IF \E k \in 1..Len(kids) : kids[k] = id
       THEN [a[id] EXCEPT !.parent = Len(a) + 1]
       ELSE a[id]]

\* A test builds one more node over the last nodes it has built.
MakeNode ==
    /\ call.op = "none"
    /\ pstate = [none |-> TRUE]
    /\ Len(arena) < MaxNodes
    /\ \E kind \in NodeKinds : \E n \in Arities(kind) :
         /\ n <= Len(Roots(arena))
         /\ \A k \in 1..n :
              arena[LastRoots(arena, n)[k]].type \in FieldKinds(kind, k)
         /\ arena' = AllocOver(arena, kind, LastRoots(arena, n))
    /\ UNCHANGED <<reader, eaten, peeked, call, outcome, log, queue, pstate,
                   pfail>>

\* RegExpVisitor::new(arena, handlers).visit(node), the handlers recording
\* their calls.
Visit ==
    /\ call.op = "none"
    /\ pstate = [none |-> TRUE]
    /\ \E node \in 1..Len(arena) :
         /\ call' = [op |-> "visit", node |-> node]
         /\ log' = visit(arena, node)
    /\ outcome' = [st |-> "ok"]
    /\ UNCHANGED <<reader, eaten, peeked, queue, arena, pstate, pfail>>

InitVisitor == IdleReader /\ IdleValidator /\ IdleParser

NextVisitor == MakeNode \/ Visit

SpecVisitor == InitVisitor /\ [][NextVisitor]_vars

----------------------------------------------------------------------------
(* Claims about the parser *)

NodeIds == 1..Len(arena)

NodesOf(type) == {id \in NodeIds : arena[id].type = type}

\* The validator has accepted the literal.
Accepted == call.op \in {"parse_literal", "parsed"} /\ outcome.st = "ok"

\* The callback `name` has run, to its end or to a panic.
HasRun(name) == \E k \in 1..Len(log) : log[k].ev = name

\* The n-th capturing group in the order of the opening parentheses.
IsNthGroup(g, n) ==
    /\ arena[g].type = "CapturingGroup"
    /\ Cardinality({h \in NodesOf("CapturingGroup") :
                      arena[h].start < arena[g].start}) = n - 1

\* The first capturing group of the name s.
IsFirstNamed(g, s) ==
    /\ arena[g].type = "CapturingGroup"
    /\ arena[g].name = s
    /\ \A h \in NodesOf("CapturingGroup") :
         arena[h].start < arena[g].start => arena[h].name # s

\* C1: once on_pattern_leave has run for an accepted pattern, every
\* Backreference node is resolved to a CapturingGroup node: the n-th in
\* the order of the opening parentheses for Index(n), the first of that
\* name for Name(s); and the backreference is among the references of that
\* group.  Backward and forward references alike.
C1_BackreferencesResolved ==
    (Accepted /\ HasRun("on_pattern_leave"))
      => \A b \in NodesOf("Backreference") :
           /\ arena[b].resolved # None
           /\ IF arena[b].ref_.variant = "Index"
              THEN IsNthGroup(arena[b].resolved, arena[b].ref_.key)
              ELSE IsFirstNamed(arena[b].resolved, arena[b].ref_.key)
           /\ \E k \in 1..Len(arena[arena[b].resolved].references) :
                arena[arena[b].resolved].references[k] = b

\* The ids a node holds in its container fields.
Contained(node) ==
    IF node.type = "Quantifier" THEN {node.element}
    ELSE IF node.type = "CharacterClassRange" THEN {node.min, node.max}
    ELSE IF node.type \in {"ClassIntersection", "ClassSubtraction"}
    THEN {node.left, node.right}
    ELSE IF node.type = "ExpressionCharacterClass" THEN {node.expression}
    ELSE IF node.type = "RegExpLiteral" THEN {node.pattern, node.flags}
    ELSE {Children(node)[k] : k \in 1..Len(Children(node))}

\* The hyphen of a range: on_character_class_range pops the Character
\* node of the "-" between min and max and keeps it nowhere.
DroppedHyphen(id) ==
    /\ arena[id].type = "Character"
    /\ arena[id].value = HYPHEN_MINUS
    /\ \E r \in NodesOf("CharacterClassRange") :
         /\ arena[r].parent = arena[id].parent
         /\ arena[arena[r].min].end = arena[id].start
         /\ arena[arena[r].max].start = arena[id].end

\* C2: when the parser has processed the events of a whole accepted
\* literal, every node but the root has a parent, and the parent holds the
\* node's id in its container field (elements, alternatives, element,
\* min/max, left/right, expression); CapturingGroup nodes and the elements
\* that on_quantifier, on_character_class_range and the class set
\* operations have wrapped included.  The root is the RegExpLiteral node;
\* the hyphen a range has dropped is no node of the tree.
C2_ParentContainsChild ==
    call.op = "parsed"
      => \A id \in NodeIds :
           (arena[id].type # "RegExpLiteral" /\ ~DroppedHyphen(id))
             => /\ arena[id].parent # None
                /\ id \in Contained(arena[arena[id].parent])

AstTypes ==
    {"Flags", "Pattern", "Alternative", "Group", "CapturingGroup",
     "Assertion", "Quantifier", "CharacterClass", "CharacterClassRange",
     "ClassIntersection", "ClassSubtraction", "ExpressionCharacterClass",
     "Character", "CharacterSet", "Backreference"}

----------------------------------------------------------------------------
(* Claims about a literal and its pattern validated alone *)

\* The pattern P of the literal of the call, the code units between the
\* two solidi, and its flag string F.
CallPattern == Slice(call.source, call.start + 1, index(CallBody) - 1)

IsModeFlag(unit) == unit \in {LATIN_SMALL_LETTER_U, LATIN_SMALL_LETTER_V}

HasFlag(fs, unit) == \E k \in 1..Len(fs) : fs[k] = unit

\* validate_pattern on a buffer that holds P and nothing else, as
\* test_parse_reg_exp_literal_fixtures calls it.
PatternAlone ==
    validate_pattern(NewValidator(call.strict, call.ecma), CallPattern,
                     0, Len(CallPattern),
                     [unicode |-> HasFlag(CallFlagString,
                                          LATIN_SMALL_LETTER_U),
                      unicode_sets |-> HasFlag(CallFlagString,
                                               LATIN_SMALL_LETTER_V)])

\* The code units a message shows between "Invalid regular expression: "
\* and ": " ++ cause.
FlagsText(flags) ==
    CASE flags = "uv" -> <<LATIN_SMALL_LETTER_U, LATIN_SMALL_LETTER_V>>
      [] flags = "u" -> <<LATIN_SMALL_LETTER_U>>
      [] flags = "v" -> <<LATIN_SMALL_LETTER_V>>
      [] OTHER -> <<>>

MessageSource(msg) ==
    IF msg.frame = "pattern"
    THEN <<SOLIDUS>> \o msg.text \o <<SOLIDUS>> \o FlagsText(msg.flags)
    ELSE msg.text

\* The literal /P/F with the letters of F other than u and v removed.
ReducedLiteral ==
    <<SOLIDUS>> \o CallPattern \o <<SOLIDUS>>
      \o SelectSeq(CallFlagString, IsModeFlag)

\* A literal validated from index 0 whose body is well-formed and whose
\* flag string is valid: every unit a flag of the version, none twice, and
\* not u together with v.
WellFormedLiteral ==
    /\ call.op = "validate_literal"
    /\ call.start = 0
    /\ CallBody.st = "run"
    /\ CallBody.ret
    /\ Offending(CallFlagString, call.ecma) = {}
    /\ ~(/\ HasFlag(CallFlagString, LATIN_SMALL_LETTER_U)
         /\ HasFlag(CallFlagString, LATIN_SMALL_LETTER_V))

\* C11: when validate_literal of a literal /P/F with a well-formed body and
\* a valid flag string fails with index i and cause C, validate_pattern of
\* P alone under unicode = (u in F) and unicode_sets = (v in F) fails with
\* cause C and index i - 1, and its message shows the literal with the
\* flags reduced to the letters u and v.
C11_LiteralAsPattern ==
    (WellFormedLiteral /\ outcome.st = "err")
    => /\ PatternAlone.st = "err"
       /\ PatternAlone.msg.cause = outcome.msg.cause
       /\ PatternAlone.msg.ch = outcome.msg.ch
       /\ PatternAlone.idx = outcome.idx - 1
       /\ MessageSource(PatternAlone.msg) = ReducedLiteral

----------------------------------------------------------------------------
(* Claims about character classes *)

\* The class string disjunction \q{aa}: one string of two code points.
ClassString ==
    <<REVERSE_SOLIDUS, LATIN_SMALL_LETTER_Q, LEFT_CURLY_BRACKET,
      LATIN_SMALL_LETTER_A, LATIN_SMALL_LETTER_A, RIGHT_CURLY_BRACKET>>

\* The pattern s opens with a negated class [^ ... \q{aa}] whose contents
\* are a union that ends with the class string disjunction: units that
\* are no bracket and no backslash (none, or a leading range), then \q{aa}.
OpensWithNegatedStringClass(s) ==
    /\ Len(s) >= 2
    /\ s[1] = LEFT_SQUARE_BRACKET
    /\ s[2] = CIRCUMFLEX_ACCENT
    /\ \E q \in 2..(Len(s) - Len(ClassString) - 1) :
         /\ SubSeq(s, q + 1, q + Len(ClassString)) = ClassString
         /\ s[q + Len(ClassString) + 1] = RIGHT_SQUARE_BRACKET
         /\ \A k \in 3..q :
              s[k] \notin {LEFT_SQUARE_BRACKET, RIGHT_SQUARE_BRACKET,
                           REVERSE_SOLIDUS}

\* C12: in Unicode-sets mode a negated class whose contents hold an operand
\* that may contain strings, first in the union or after a leading range,
\* is rejected with "Negated character class may contain strings" and no
\* on_character_class_leave is emitted for it, so no accepted pattern
\* contains such a class.
C12_NegatedClassStrings ==
    (/\ call.op = "validate_pattern"
     /\ call.ecma >= 2024
     /\ call.flags.unicode_sets
     /\ ~call.flags.unicode
     /\ call.start = 0
     /\ call.end = Len(call.source)
     /\ OpensWithNegatedStringClass(call.source))
    => /\ outcome.st = "err"
       /\ outcome.msg.cause = "Negated character class may contain strings"
       /\ \A k \in 1..Len(log) :
            ~(log[k].ev = "on_character_class_leave" /\ log[k].start = 0)

\* Every event the validator has emitted in the run of the parser: those
\* the callbacks have taken and those still to be delivered.
Emitted == log \o queue

IsLetter(unit) == unit \in {LATIN_SMALL_LETTER_A, LATIN_SMALL_LETTER_B}

\* The code units s after the opening solidus of a literal open with a
\* class whose first two atoms are letters x and y joined by a hyphen,
\* [x-y, with x > y.
OpensWithDescendingRange(s) ==
    /\ Len(s) >= 4
    /\ s[1] = LEFT_SQUARE_BRACKET
    /\ IsLetter(s[2])
    /\ s[3] = HYPHEN_MINUS
    /\ IsLetter(s[4])
    /\ s[2] > s[4]

\* The event on_character_class_range(start, end, min, max) the node r was
\* made from.
RangeEventOf(r, e) ==
    /\ e.ev = "on_character_class_range"
    /\ e.start = arena[r].start
    /\ e.end = arena[r].end

DescendingRangeLiteral ==
    <<SOLIDUS, LEFT_SQUARE_BRACKET, LATIN_SMALL_LETTER_B, HYPHEN_MINUS,
      LATIN_SMALL_LETTER_A, RIGHT_SQUARE_BRACKET, SOLIDUS>>

\* validate_literal of /[b-a]/ over the whole buffer under the default
\* options: not strict, the latest version.
ValidatesDescendingRangeLiteral ==
    /\ call.op = "validate_literal"
    /\ ~call.strict
    /\ call.ecma = LATEST_ECMA_VERSION
    /\ call.source = DescendingRangeLiteral
    /\ call.start = 0
    /\ call.end = Len(call.source)

\* The error "Invalid regular expression: /[b-a]/: Range out of order in
\* character class" with the index i.
RangeOutOfOrderAt(i) ==
    [st |-> "err",
     msg |-> [frame |-> "literal", text |-> DescendingRangeLiteral,
              flags |-> "",
              cause |-> "Range out of order in character class",
              ch |-> None],
     idx |-> i]

\* C14 as stated: validating the literal /[b-a]/ under the default options
\* fails with the message "Invalid regular expression: /[b-a]/: Range out
\* of order in character class" and index 4.
C14_RangeOutOfOrderAtFour ==
    ValidatesDescendingRangeLiteral => outcome = RangeOutOfOrderAt(4)

\* C14 amended: validating the literal /[b-a]/ under the default options
\* fails with the message "Invalid regular expression: /[b-a]/: Range out
\* of order in character class" and index 5, the index behind the second
\* atom of the range.
C14_RangeOutOfOrderAtFive ==
    ValidatesDescendingRangeLiteral => outcome = RangeOutOfOrderAt(5)

C14_Witness == ValidatesDescendingRangeLiteral /\ outcome.st = "err"

----------------------------------------------------------------------------
(* Claims about the visitor *)

\* The stem of the handler names of a node type.
HandlerStem(type) ==
    CASE type = "Alternative" -> "on_alternative"
      [] type = "Assertion" -> "on_assertion"
      [] type = "Backreference" -> "on_backreference"
      [] type = "CapturingGroup" -> "on_capturing_group"
      [] type = "Character" -> "on_character"
      [] type = "CharacterClass" -> "on_character_class"
      [] type = "CharacterClassRange" -> "on_character_class_range"
      [] type = "CharacterSet" -> "on_character_set"
      [] type = "ClassIntersection" -> "on_class_intersection"
      [] type = "ClassStringDisjunction" -> "on_class_string_disjunction"
      [] type = "ClassSubtraction" -> "on_class_subtraction"
      [] type = "ExpressionCharacterClass"
           -> "on_expression_character_class"
      [] type = "Flags" -> "on_flags"
      [] type = "Group" -> "on_group"
      [] type = "Pattern" -> "on_pattern"
      [] type = "Quantifier" -> "on_quantifier"
      [] type = "RegExpLiteral" -> "on_reg_exp_literal"
      [] type = "StringAlternative" -> "on_string_alternative"

\* The positions of the log where the enter handler, and the leave
\* handler, of the node's type was called with the node.
EnterCalls(n) ==
    {k \in 1..Len(log) :
       /\ log[k].node = n
       /\ log[k].ev = HandlerStem(arena[n].type) \o "_enter"}

LeaveCalls(n) ==
    {k \in 1..Len(log) :
       /\ log[k].node = n
       /\ log[k].ev = HandlerStem(arena[n].type) \o "_leave"}

EnterAt(n) == CHOOSE k \in EnterCalls(n) : TRUE

LeaveAt(n) == CHOOSE k \in LeaveCalls(n) : TRUE

\* The children of a node in the order the visitor is to take them.
ChildList(node) ==
    CASE node.type = "RegExpLiteral" -> <<node.pattern, node.flags>>
      [] node.type \in {"Pattern", "Group", "CapturingGroup",
                        "ClassStringDisjunction"} -> node.alternatives
      [] node.type = "Assertion"
           -> IF node.alternatives.some THEN node.alternatives.v ELSE <<>>
      [] node.type \in {"Alternative", "CharacterClass",
                        "StringAlternative"} -> node.elements
      [] node.type = "Quantifier" -> <<node.element>>
      [] node.type = "CharacterClassRange" -> <<node.min, node.max>>
      [] node.type = "ExpressionCharacterClass" -> <<node.expression>>
      [] node.type \in {"ClassIntersection", "ClassSubtraction"}
           -> <<node.left, node.right>>
      [] OTHER -> <<>>

\* The nodes reachable from a node: the node and what is below it.
RECURSIVE Below(_)
Below(n) ==
    {n} \cup UNION {Below(ChildList(arena[n])[k]) :
                      k \in 1..Len(ChildList(arena[n]))}

\* The calls of the node's handlers wrap those of its children, child
\* after child with nothing in between.
ChildrenInOrder(n) ==
    IF ChildList(arena[n]) = <<>> THEN LeaveAt(n) = EnterAt(n) + 1
    ELSE /\ EnterAt(ChildList(arena[n])[1]) = EnterAt(n) + 1
         /\ LeaveAt(Last(ChildList(arena[n]))) = LeaveAt(n) - 1
         /\ \A k \in 1..(Len(ChildList(arena[n])) - 1) :
              EnterAt(ChildList(arena[n])[k + 1])
                = LeaveAt(ChildList(arena[n])[k]) + 1

\* C15: visit(r) calls the enter handler and the leave handler of every
\* node reachable from r exactly once each and calls no other handler, the
\* enter before the leave, with every call for a descendant strictly
\* between the two, and the children left to right in the order of the
\* node's fields: pattern then flags, the alternatives, the elements, the
\* element, min then max, the expression, left then right.  A node without
\* children has its enter immediately followed by its leave.
C15_VisitOrder ==
    call.op = "visit"
      => /\ Len(log) = 2 * Cardinality(Below(call.node))
         /\ \A n \in Below(call.node) :
              /\ Cardinality(EnterCalls(n)) = 1
              /\ Cardinality(LeaveCalls(n)) = 1
         /\ \A n \in Below(call.node) :
              /\ EnterAt(n) < LeaveAt(n)
              /\ \A d \in Below(n) \ {n} :
                   /\ EnterAt(n) < EnterAt(d)
                   /\ LeaveAt(d) < LeaveAt(n)
              /\ ChildrenInOrder(n)

\* A literal over a pattern and its flags has been visited, and so has a
\* range.
C15_Witness ==
    /\ call.op = "visit"
    /\ arena[call.node].type \in {"RegExpLiteral", "CharacterClass"}
    /\ Len(log) = 8

----------------------------------------------------------------------------
(* Claims about eat, eat2 and eat3 *)

\* The reader after k advance steps.
RECURSIVE Advances(_, _)
Advances(r, k) == IF k = 0 THEN r ELSE Advances(advance(r), k - 1)

\* What a call of eat, eat2 or eat3 is to do from the reader r: matched is
\* whether the window begins with the k code points given, ok is what the
\* call returns and after is the reader it leaves.
EatContract(r, matched, k, ok, after) ==
    IF matched
    THEN /\ ok
         /\ ~after.panic
         /\ after = Advances(r, k)
    ELSE /\ ~ok
         /\ after = r

\* C16: from every state the reader reaches, eat(cp), eat2(a, b) and
\* eat3(a, b, c) return true and leave the reader where one, two or three
\* advance steps lead when the window begins with the code points given,
\* and return false and leave the index and the whole window as they are
\* when it does not.
C16_EatFrame ==
    ~reader.panic
      => /\ \A a \in EatCps :
              EatContract(reader, reader.cp1 = a, 1,
                          eatOk(reader, a), eat(reader, a))
         /\ \A a \in EatCps, b \in EatCps :
              EatContract(reader, reader.cp1 = a /\ reader.cp2 = b, 2,
                          eat2Ok(reader, a, b), eat2(reader, a, b))
         /\ \A a \in EatCps, b \in EatCps, c \in EatCps :
              EatContract(reader,
                          reader.cp1 = a /\ reader.cp2 = b /\ reader.cp3 = c,
                          3, eat3Ok(reader, a, b, c), eat3(reader, a, b, c))

\* The same while no call panics: the contract of C16 but for the panic of
\* Reader::at.
C16_EatFrameUnlessPanic ==
    ~reader.panic
      => /\ \A a \in EatCps :
              \/ eat(reader, a).panic
              \/ EatContract(reader, reader.cp1 = a, 1,
                             eatOk(reader, a), eat(reader, a))
         /\ \A a \in EatCps, b \in EatCps :
              \/ eat2(reader, a, b).panic
              \/ EatContract(reader, reader.cp1 = a /\ reader.cp2 = b, 2,
                             eat2Ok(reader, a, b), eat2(reader, a, b))
         /\ \A a \in EatCps, b \in EatCps, c \in EatCps :
              \/ eat3(reader, a, b, c).panic
              \/ EatContract(reader,
                             reader.cp1 = a /\ reader.cp2 = b
                               /\ reader.cp3 = c,
                             3, eat3Ok(reader, a, b, c),
                             eat3(reader, a, b, c))

----------------------------------------------------------------------------
(* Claims about the callbacks' preconditions *)

\* C17: whatever the literal and the configuration, the events the
\* validator delivers never make a callback of the parser fail: no
\* assert!, unwrap, variant cast or index lookup of an on_* callback
\* panics, so a parse fails with the validator's RegExpSyntaxError only.
C17_CallbacksNeverFail ==
    call.op \in {"parse_literal", "parsed"} => ~pfail

----------------------------------------------------------------------------
(* Claims about quantifiers *)

\* The assertions a literal's body may open with: the edge assertions, the
\* word boundaries, and the lookarounds over the letter a.
LookaheadTexts ==
    {<<LEFT_PARENTHESIS, QUESTION_MARK, EQUALS_SIGN, LATIN_SMALL_LETTER_A,
       RIGHT_PARENTHESIS>>,
     <<LEFT_PARENTHESIS, QUESTION_MARK, EXCLAMATION_MARK,
       LATIN_SMALL_LETTER_A, RIGHT_PARENTHESIS>>}

OtherAssertionTexts ==
    {<<CIRCUMFLEX_ACCENT>>, <<DOLLAR_SIGN>>,
     <<REVERSE_SOLIDUS, LATIN_SMALL_LETTER_B>>,
     <<REVERSE_SOLIDUS, LATIN_CAPITAL_LETTER_B>>,
     <<LEFT_PARENTHESIS, QUESTION_MARK, LESS_THAN_SIGN, EQUALS_SIGN,
       LATIN_SMALL_LETTER_A, RIGHT_PARENTHESIS>>,
     <<LEFT_PARENTHESIS, QUESTION_MARK, LESS_THAN_SIGN, EXCLAMATION_MARK,
       LATIN_SMALL_LETTER_A, RIGHT_PARENTHESIS>>}

QuantifierSymbols == {ASTERISK, PLUS_SIGN, QUESTION_MARK}

StartsWith(s, t) == Len(s) >= Len(t) /\ SubSeq(s, 1, Len(t)) = t

\* The literal of the call has no flags: it ends with its closing solidus.
NoFlagsLiteral == call.source[Len(call.source)] = SOLIDUS

\* The body of the literal opens with an assertion that is not
\* quantifiable in the mode of the call, and a quantifier symbol.
OpensWithQuantifiedAssertion ==
    \E q \in QuantifierSymbols :
      \/ \E t \in OtherAssertionTexts :
           StartsWith(Tail(call.source), t \o <<q>>)
      \/ /\ call.strict \/ ~NoFlagsLiteral
         /\ \E t \in LookaheadTexts :
              StartsWith(Tail(call.source), t \o <<q>>)

\* The callback on_quantifier has the Alternative alt at hand, whose last
\* element is E; it leaves, in the place of E, a Quantifier over E made
\* from the event e.
Wrapped(alt, e) ==
    /\ ~pfail'
    /\ Len(arena'[alt].elements) = Len(arena[alt].elements)
    /\ \A k \in 1..(Len(arena[alt].elements) - 1) :
         arena'[alt].elements[k] = arena[alt].elements[k]
    /\ arena'[Last(arena'[alt].elements)].type = "Quantifier"
    /\ arena'[Last(arena'[alt].elements)].element
         = Last(arena[alt].elements)
    /\ arena'[Last(arena'[alt].elements)].start
         = arena[Last(arena[alt].elements)].start
    /\ arena'[Last(arena'[alt].elements)].end = e.end
    /\ arena'[Last(arena'[alt].elements)].min = e.x[1]
    /\ arena'[Last(arena'[alt].elements)].max = e.x[2]
    /\ arena'[Last(arena'[alt].elements)].greedy = e.x[3]
    /\ arena'[Last(arena[alt].elements)].parent
         = Last(arena'[alt].elements)

\* The step in which the parser takes an on_quantifier event.
TakesQuantifier ==
    /\ Receives("on_quantifier")
    /\ log' = Append(log, Head(queue))

\* The rejection the claim states for the call at hand.
QuantifiedAssertionRejected ==
    (call.op \in {"parse_literal", "parsed"} /\ OpensWithQuantifiedAssertion)
      => /\ outcome.st = "err"
         /\ outcome.msg.cause = "Nothing to repeat"

\* C18: whenever the validator emits on_quantifier(start, end, min, max,
\* greedy), after a lookahead in non-strict non-Unicode mode included, the
\* parser takes the last element E off the current alternative and puts a
\* Quantifier Q in its place with Q.element = E, Q.start = E.start, Q.end =
\* end, min, max and greedy from the event, and E.parent = Q; and a
\* quantifier after a lookbehind, an edge assertion or a word boundary, or
\* after a lookahead in strict or Unicode mode, is rejected with "Nothing
\* to repeat".
C18_QuantifierWraps ==
    [][/\ QuantifiedAssertionRejected
       /\ TakesQuantifier
            => /\ pstate._node # None
               /\ arena[pstate._node].type = "Alternative"
               /\ arena[pstate._node].elements # <<>>
               /\ Wrapped(pstate._node, Head(queue))]_vars

\* The first half of C18 for elements other than lookaheads and capturing
\* groups, and the second half.
C18_QuantifierWrapsOthers ==
    [][/\ QuantifiedAssertionRejected
       /\ (/\ TakesQuantifier
           /\ pstate._node # None
           /\ arena[pstate._node].type = "Alternative"
           /\ arena[pstate._node].elements # <<>>
           /\ arena[Last(arena[pstate._node].elements)].type # "Assertion")
            => Wrapped(pstate._node, Head(queue))]_vars

----------------------------------------------------------------------------
(* Claims about named groups and n_flag *)

\* A whole pattern that declares the group a: (?<a>) and (?<a>a).
NamedGroupPatterns ==
    {<<LEFT_PARENTHESIS, QUESTION_MARK, LESS_THAN_SIGN, LATIN_SMALL_LETTER_A,
       GREATER_THAN_SIGN, RIGHT_PARENTHESIS>>,
     <<LEFT_PARENTHESIS, QUESTION_MARK, LESS_THAN_SIGN, LATIN_SMALL_LETTER_A,
       GREATER_THAN_SIGN, LATIN_SMALL_LETTER_A, RIGHT_PARENTHESIS>>}

\* validate_pattern has been called over such a pattern with n_flag off at
\* a version of 2018 or later.
StartsWithoutNFlag ==
    /\ call.op = "validate_pattern"
    /\ call.start = 0
    /\ call.end = Len(call.source)
    /\ call.source \in NamedGroupPatterns
    /\ ~call.flags.unicode
    /\ ~call.flags.unicode_sets
    /\ ~(call.strict /\ call.ecma >= 2023)
    /\ call.ecma >= 2018

\* The positions of the log that hold the event `name`.
EventsNamed(name) == {k \in 1..Len(log) : log[k].ev = name}

\* C19: when validate_pattern starts with n_flag off at a version of 2018
\* or later and the first descent declares a named group, the validator
\* sets n_flag, rewinds to the start of the pattern and descends a second
\* time: the events of the pattern are emitted again, and the call's
\* result is that of the second descent, Ok for these patterns.
C19_SecondDescent ==
    StartsWithoutNFlag
      => /\ outcome.st = "ok"
         /\ Cardinality(EventsNamed("on_pattern_enter")) = 2
         /\ Cardinality(EventsNamed("on_pattern_leave")) = 2
         /\ Cardinality(EventsNamed("on_capturing_group_enter")) = 2
         /\ Cardinality(EventsNamed("on_capturing_group_leave")) = 2

----------------------------------------------------------------------------
(* Claims about decimal escapes *)

IsDigit(unit) == unit >= DIGIT_ZERO /\ unit <= DIGIT_NINE

\* The capturing groups of the pattern s as the pre-pass counts them, from
\* the unit k on: a ( outside a class and not escaped, not followed by ?
\* unless by ?< and then neither = nor !.
RECURSIVE CountedFrom(_, _, _, _)
CountedFrom(s, k, in_class, escaped) ==
    IF k > Len(s) THEN 0
    ELSE IF escaped THEN CountedFrom(s, k + 1, in_class, FALSE)
    ELSE IF s[k] = REVERSE_SOLIDUS THEN CountedFrom(s, k + 1, in_class, TRUE)
    ELSE IF s[k] = LEFT_SQUARE_BRACKET THEN CountedFrom(s, k + 1, TRUE, FALSE)
    ELSE IF s[k] = RIGHT_SQUARE_BRACKET
    THEN CountedFrom(s, k + 1, FALSE, FALSE)
    ELSE IF /\ s[k] = LEFT_PARENTHESIS
            /\ ~in_class
            /\ \/ k + 1 > Len(s)
               \/ s[k + 1] # QUESTION_MARK
               \/ /\ k + 2 <= Len(s)
                  /\ s[k + 2] = LESS_THAN_SIGN
                  /\ \/ k + 3 > Len(s)
                     \/ s[k + 3] \notin {EQUALS_SIGN, EXCLAMATION_MARK}
    THEN 1 + CountedFrom(s, k + 1, in_class, FALSE)
    ELSE CountedFrom(s, k + 1, in_class, FALSE)

CountedGroups(s) == CountedFrom(s, 1, FALSE, FALSE)

\* The last unit of the digit string that begins at the unit k.
RECURSIVE DigitsEnd(_, _)
DigitsEnd(s, k) ==
    IF k + 1 <= Len(s) /\ IsDigit(s[k + 1]) THEN DigitsEnd(s, k + 1) ELSE k

\* The decimal value of the units a..b of s.
RECURSIVE DecimalValue(_, _, _)
DecimalValue(s, a, b) ==
    IF a > b THEN 0
    ELSE 10 * DecimalValue(s, a, b - 1) + (s[b] - DIGIT_ZERO)

\* A text of letters a and empty groups ().
RECURSIVE IsPlain(_)
IsPlain(t) ==
    \/ t = <<>>
    \/ Head(t) = LATIN_SMALL_LETTER_A /\ IsPlain(Tail(t))
    \/ /\ Len(t) >= 2
       /\ t[1] = LEFT_PARENTHESIS
       /\ t[2] = RIGHT_PARENTHESIS
       /\ IsPlain(Tail(Tail(t)))

\* The unit p of the call's pattern is its first backslash, what is before
\* it is plain, and a digit of 1..9 follows.
FirstDecimalEscape(p) ==
    /\ call.source[p] = REVERSE_SOLIDUS
    /\ IsPlain(SubSeq(call.source, 1, p - 1))
    /\ p + 1 <= Len(call.source)
    /\ call.source[p + 1] >= DIGIT_ONE
    /\ call.source[p + 1] <= DIGIT_NINE

\* The flags the version of the call knows: u from 2015, v from 2024.
CallUnicode == call.flags.unicode /\ call.ecma >= 2015

CallUnicodeSets == call.flags.unicode_sets /\ call.ecma >= 2024

\* validate_pattern has been called over a whole buffer, not under u and v
\* together.
WholePatternCall ==
    /\ call.op = "validate_pattern"
    /\ call.start = 0
    /\ call.end = Len(call.source)
    /\ ~(CallUnicode /\ CallUnicodeSets)

\* What is to happen for the escape at p with the value n, the digit
\* string ending at the unit q, c groups being counted.
DecimalEscapeRule(p, q, n, c) ==
    IF n <= c
    THEN \E k \in 1..Len(log) :
           /\ log[k].ev = "on_backreference"
           /\ log[k].start = p - 1
           /\ log[k].end = q
           /\ log[k].x = <<n>>
    ELSE /\ \A k \in 1..Len(log) :
              ~(log[k].ev = "on_backreference" /\ log[k].start = p - 1)
         /\ (call.strict \/ CallUnicode \/ CallUnicodeSets)
              => /\ outcome.st = "err"
                 /\ outcome.msg.cause = "Invalid escape"

\* C20: for a backslash followed by a digit string d1..dk with d1 in 1..9,
\* n being the decimal value of the whole string and c the number of
\* capturing groups the pre-pass counts over the whole pattern, the
\* validator emits on_backreference with Index(n) over the span from the
\* backslash to the last digit when n <= c; when n > c it emits no
\* backreference and, in strict or Unicode mode, fails with "Invalid
\* escape".
C20_DecimalEscape ==
    WholePatternCall
      => \A p \in 1..Len(call.source) :
           FirstDecimalEscape(p)
             => DecimalEscapeRule(p, DigitsEnd(call.source, p),
                                  DecimalValue(call.source, p + 1,
                                               DigitsEnd(call.source, p)),
                                  CountedGroups(call.source))

\* C20 for one digit, or several digits that are all the same.
C20_DecimalEscapeOfOneDigit ==
    WholePatternCall
      => \A p \in 1..Len(call.source) :
           (/\ FirstDecimalEscape(p)
            /\ \A k \in (p + 1)..DigitsEnd(call.source, p) :
                 call.source[k] = call.source[p + 1])
             => DecimalEscapeRule(p, DigitsEnd(call.source, p),
                                  DecimalValue(call.source, p + 1,
                                               DigitsEnd(call.source, p)),
                                  CountedGroups(call.source))

----------------------------------------------------------------------------
(* Claims about the set expressions of a class *)

\* The step in which the parser takes an event of the name.
Takes(name) ==
    /\ Receives(name)
    /\ log' = Append(log, Head(queue))

\* The expression the class has in the buffer, or None.
Buffered(cls) == MapGet(pstate._expression_buffer_map, cls)

\* The left operand the claim gives a set operation of the class: the
\* buffered expression, or else the element before the last.
LeftOperand(cls) ==
    IF Buffered(cls) # None THEN Buffered(cls)
    ELSE arena[cls].elements[Len(arena[cls].elements) - 1]

\* on_class_intersection or on_class_subtraction has made the node of the
\* variant from the last element of the class and the left operand, and
\* has buffered it for the class.
Reshaped(cls, variant) ==
    /\ ~pfail'
    /\ Len(arena') = Len(arena) + 1
    /\ arena'[Len(arena')].type = variant
    /\ arena'[Len(arena')].right = Last(arena[cls].elements)
    /\ arena'[Len(arena')].left = LeftOperand(cls)
    /\ arena'[Len(arena')].parent = cls
    /\ arena'[LeftOperand(cls)].parent = Len(arena')
    /\ arena'[Last(arena[cls].elements)].parent = Len(arena')
    /\ MapGet(pstate'._expression_buffer_map, cls) = Len(arena')

\* on_character_class_leave has put an ExpressionCharacterClass over the
\* buffered expression in the place of the class.
Spliced(cls, parent) ==
    /\ ~pfail'
    /\ arena[cls].elements = <<>>
    /\ MapGet(pstate'._expression_buffer_map, cls) = None
    /\ Len(arena') = Len(arena) + 1
    /\ arena'[Len(arena')].type = "ExpressionCharacterClass"
    /\ arena'[Len(arena')].start = arena'[cls].start
    /\ arena'[Len(arena')].end = arena'[cls].end
    /\ arena'[Len(arena')].raw = arena'[cls].raw
    /\ arena'[Len(arena')].negate = arena'[cls].negate
    /\ arena'[Len(arena')].expression = Buffered(cls)
    /\ arena'[Len(arena')].parent = parent
    /\ arena'[Buffered(cls)].parent = Len(arena')
    /\ Len(arena'[parent].elements) = Len(arena[parent].elements)
    /\ \A k \in 1..Len(arena[parent].elements) :
         arena'[parent].elements[k]
           = IF arena[parent].elements[k] = cls THEN Len(arena')
             ELSE arena[parent].elements[k]

\* The node at hand is a class of the v flag with a last element and a
\* left operand for a set operation.
AtSetOperands ==
    /\ pstate._node # None
    /\ arena[pstate._node].type = "CharacterClass"
    /\ arena[pstate._node].unicode_sets
    /\ arena[pstate._node].elements # <<>>
    /\ \/ Buffered(pstate._node) # None
       \/ Len(arena[pstate._node].elements) >= 2

\* The node at hand is a class with a buffered expression.
AtBufferedClass ==
    /\ pstate._node # None
    /\ arena[pstate._node].type = "CharacterClass"
    /\ Buffered(pstate._node) # None
    /\ arena[pstate._node].parent # None

\* The set operations reshape the class as the claim states.
SetOperationsReshape ==
    /\ Takes("on_class_intersection")
         => AtSetOperands /\ Reshaped(pstate._node, "ClassIntersection")
    /\ Takes("on_class_subtraction")
         => AtSetOperands /\ Reshaped(pstate._node, "ClassSubtraction")

\* C21: each on_class_intersection and on_class_subtraction takes as its
\* right operand the last element of the enclosing class of the v flag and
\* as its left operand the buffered expression of the class if there is
\* one, else the element before, so that a chain nests to the left; and
\* on_character_class_leave for a class with a buffered expression finds
\* the class without elements, removes the buffer entry, and puts a new
\* ExpressionCharacterClass of the same span, raw and negate over the
\* expression in the place of the class in its parent's elements, the
\* expression's parent being the new node.
C21_SetExpressionReshaping ==
    [][/\ SetOperationsReshape
       /\ (Takes("on_character_class_leave") /\ AtBufferedClass)
            => Spliced(pstate._node, arena[pstate._node].parent)]_vars

\* The part of C21 about on_class_intersection and on_class_subtraction.
C21_SetOperationsReshape == [][SetOperationsReshape]_vars

\* A chain of two intersections has been nested to the left.
C21_NestedToTheLeft ==
    \E n \in NodeIds :
      /\ arena[n].type = "ClassIntersection"
      /\ arena[arena[n].left].type = "ClassIntersection"
      /\ arena[arena[n].right].type = "Character"

----------------------------------------------------------------------------
(* Claims about the order of the events *)

\* The productions that are entered and left, by the stem of their events.
ProductionStems ==
    {"on_literal", "on_pattern", "on_disjunction", "on_alternative",
     "on_group", "on_capturing_group", "on_lookaround_assertion",
     "on_character_class", "on_class_string_disjunction"}

IsEnter(e) == \E s \in ProductionStems : e.ev = s \o "_enter"

IsLeave(e) == \E s \in ProductionStems : e.ev = s \o "_leave"

StemOf(e) ==
    CHOOSE s \in ProductionStems : e.ev \in {s \o "_enter", s \o "_leave"}

EntersIn(es, j, k) == Cardinality({m \in (j + 1)..(k - 1) : IsEnter(es[m])})

LeavesIn(es, j, k) == Cardinality({m \in (j + 1)..(k - 1) : IsLeave(es[m])})

\* The enter events before position k that are not closed before k: those
\* with as many enter as leave events between them and k are closed by k.
Openers(es, k) ==
    {j \in 1..(k - 1) :
       IsEnter(es[j]) /\ EntersIn(es, j, k) = LeavesIn(es, j, k)}

Max(S) == CHOOSE m \in S : \A n \in S : n <= m

\* The leave event at position k closes the most recently opened
\* production that is not closed yet.
ClosesLastOpened(es, k) ==
    /\ Openers(es, k) # {}
    /\ StemOf(es[Max(Openers(es, k))]) = StemOf(es[k])
    /\ es[Max(Openers(es, k))].start = es[k].start
    /\ es[k].end >= es[k].start

EnterPositions(es) == {k \in 1..Len(es) : IsEnter(es[k])}

LeavePositions(es) == {k \in 1..Len(es) : IsLeave(es[k])}

WellNested(es) ==
    /\ \A k \in LeavePositions(es) : ClosesLastOpened(es, k)
    /\ \A j, k \in EnterPositions(es) :
         j < k => es[j].start <= es[k].start

\* C22: in every validation run the enter and leave events are
\* well-nested: each leave event closes the most recently opened and not
\* yet closed production, with the same start index and an end that is not
\* before the start, and the start indices of successive enter events never
\* decrease; a run that ends well has closed every production, and a run
\* that raised a RegExpSyntaxError emitted nothing afterwards, so the
\* outermost production it opened is still open.
C22_WellNested ==
    call.op \in {"validate_pattern", "validate_literal", "validate_flags"}
      => /\ WellNested(log)
         /\ outcome.st = "ok"
              => Cardinality(EnterPositions(log))
                   = Cardinality(LeavePositions(log))
         /\ (outcome.st = "err" /\ log # <<>> /\ IsEnter(log[1]))
              => \A k \in LeavePositions(log) : Max(Openers(log, k)) # 1

\* A run over a group in a group, or over a class in a class, has ended
\* well.
C22_Witness ==
    /\ call.op \in {"validate_pattern", "validate_literal"}
    /\ outcome.st = "ok"
    /\ \E j, k \in EnterPositions(log) :
         /\ j < k
         /\ StemOf(log[j]) = StemOf(log[k])
         /\ StemOf(log[j]) \in {"on_capturing_group", "on_group",
                                "on_character_class"}
         /\ \E m, n \in LeavePositions(log) :
              /\ m < n
              /\ Max(Openers(log, m)) = k
              /\ Max(Openers(log, n)) = j

\* A run has raised a RegExpSyntaxError inside a group or a class.
C22_WitnessError ==
    /\ call.op \in {"validate_pattern", "validate_literal"}
    /\ outcome.st = "err"
    /\ LeavePositions(log) # {}
    /\ \E k \in EnterPositions(log) :
         StemOf(log[k]) \in {"on_capturing_group", "on_character_class"}

----------------------------------------------------------------------------
(* Claims about the reserved double punctuators *)

\* What may stand in a class before a doubled punctuator: nothing, a
\* character, a range, an operand.
ItemsBeforePair ==
    {<<>>, <<LATIN_SMALL_LETTER_A>>,
     <<LATIN_SMALL_LETTER_A, HYPHEN_MINUS, LATIN_SMALL_LETTER_A>>,
     <<LEFT_SQUARE_BRACKET, LATIN_SMALL_LETTER_A, RIGHT_SQUARE_BRACKET>>}

\* The pattern of the call is a class that opens with the items and a
\* doubled reserved punctuator other than &&.
OpensWithPairAfter(items) ==
    \E d \in 0..127 :
      /\ is_class_set_reserved_double_punctuator_character(d)
      /\ d # AMPERSAND
      /\ StartsWith(call.source, <<LEFT_SQUARE_BRACKET>> \o items \o <<d, d>>)

InvalidSetOperation ==
    /\ outcome.st = "err"
    /\ outcome.msg.cause = "Invalid set operation in character class"

\* C23: in a class of the v flag a doubled reserved punctuator other than
\* && that is not escaped is rejected with "Invalid set operation in
\* character class" wherever it stands in the class: as the first item,
\* after a character, after a range or after an operand.
C23_DoubledPunctuatorRejected ==
    (WholePatternCall /\ CallUnicodeSets)
      => \A items \in ItemsBeforePair :
           OpensWithPairAfter(items) => InvalidSetOperation

\* The case of C23 in which the pair is the first item of the class.
C23_DoubledPunctuatorFirst ==
    (WholePatternCall /\ CallUnicodeSets /\ OpensWithPairAfter(<<>>))
      => InvalidSetOperation

\* A pair that is not the first item is rejected as an invalid character.
C23_DoubledPunctuatorLater ==
    (WholePatternCall /\ CallUnicodeSets)
      => \A items \in ItemsBeforePair \ {<<>>} :
           OpensWithPairAfter(items)
             => /\ outcome.st = "err"
                /\ outcome.msg.cause = "Invalid character in character class"

----------------------------------------------------------------------------
(* Claims about the borrows of the arena *)

\* The class at hand has a buffered expression and meets every assert! of
\* on_character_class_leave: it has no elements and is the last element of
\* its parent, an Alternative or a CharacterClass.
SpliceAssertsHold ==
    /\ AtBufferedClass
    /\ arena[pstate._node].elements = <<>>
    /\ arena[arena[pstate._node].parent].type
         \in {"Alternative", "CharacterClass"}
    /\ arena[arena[pstate._node].parent].elements # <<>>
    /\ Last(arena[arena[pstate._node].parent].elements) = pstate._node
    /\ SliceOk(pstate.source, Head(queue).start, Head(queue).end)

\* C24: no callback of the parser allocates a node or borrows the arena
\* mutably while a read borrow of the arena is held; in particular the
\* splice of the ExpressionCharacterClass in on_character_class_leave,
\* all its assert!s holding, never fails with a borrow error of the
\* RefCell.
C24_NoBorrowConflict ==
    [][(Takes("on_character_class_leave") /\ SpliceAssertsHold)
         => ~pfail']_vars

----------------------------------------------------------------------------
(* Claims about the window of the reader *)

\* The window a reader stores.
Window(r) == <<r.cp1, r.w1, r.cp2, r.w2, r.cp3, r.w3, r.cp4>>

\* The reader as rewind leaves it at the index.
Afresh(r, i) == rewind(r, i)

\* advance() of the reader r is rewind(index + w1) when cp1 is present,
\* and changes nothing when cp1 is None.
AdvanceIsRewind(r) ==
    IF r.cp1 = None THEN advance(r) = r
    ELSE /\ advance(r).panic = Afresh(r, r.i + r.w1).panic
         /\ ~advance(r).panic
              => /\ advance(r).i = r.i + r.w1
                 /\ Window(advance(r)) = Window(Afresh(r, r.i + r.w1))

\* C25: after reset and any sequence of rewind, advance and eat, eat2,
\* eat3, the window the reader stores (cp1, w1, cp2, w2, cp3, w3, cp4) is
\* the window computed afresh from the buffer at the current index; so
\* advance() with cp1 present is rewind(index + w1), and advance() with cp1
\* None changes nothing.
C25_WindowFresh ==
    ~reader.panic
      => /\ ~Afresh(reader, reader.i).panic
         /\ Window(reader) = Window(Afresh(reader, reader.i))
         /\ AdvanceIsRewind(reader)

\* eat has advanced a reader of the u flag onto a surrogate pair, which is
\* one code point of width two in its window.
C25_Witness ==
    /\ eaten
    /\ ~reader.panic
    /\ reader.u
    /\ reader.i > reader.start
    /\ reader.cp1 > BmpMax
    /\ reader.w1 = 2

----------------------------------------------------------------------------
(* Claims about termination *)

\* The events of what a term consumes: an atom, an assertion, a
\* quantifier, or the end of a group, a lookaround or a class.
TermEvents ==
    {"on_character", "on_any_character_set", "on_escape_character_set",
     "on_unicode_property_character_set", "on_backreference",
     "on_edge_assertion", "on_word_boundary_assertion", "on_quantifier",
     "on_character_class_range", "on_class_intersection",
     "on_class_subtraction", "on_group_leave", "on_capturing_group_leave",
     "on_lookaround_assertion_leave", "on_character_class_leave",
     "on_class_string_disjunction_leave"}

EventsOf(names) == {k \in 1..Len(log) : log[k].ev \in names}

\* C26: validate_flags, validate_pattern and validate_literal terminate on
\* every finite input: every round of the loops of consume_disjunction and
\* consume_alternative, of the class contents and the set operations, of
\* eat_decimal_escape, eat_decimal_digits, count_capturing_parens and
\* eat_reg_exp_body moves the reader forward or leaves the loop, so no call
\* is caught in a loop; and every successful consume_term consumes at least
\* one code unit, so what it reports spans at least one.
C26_LoopsMoveForward ==
    call.op \in {"validate_pattern", "validate_literal", "validate_flags"}
      => /\ outcome.st \in {"ok", "err", "panic"}
         /\ \A k \in EventsOf(TermEvents) : log[k].end > log[k].start

\* A call over two alternatives of two terms each has returned Ok.
C26_Witness ==
    /\ call.op \in {"validate_pattern", "validate_literal"}
    /\ outcome.st = "ok"
    /\ Cardinality(EventsOf({"on_alternative_enter"})) >= 2
    /\ Cardinality(EventsOf({"on_character"})) >= 4

----------------------------------------------------------------------------
(* Claims about the index of the reader *)

\* C27: after reset(source, start, end, mode) with start <= end <= the
\* length of the buffer, and any sequence of advance, eat, eat2, eat3 and
\* rewind(i) with start <= i <= end, the index of the reader lies between
\* start and end, in both modes and for every buffer, a surrogate pair
\* that straddles end included.
C27_IndexInWindow ==
    ~reader.panic
      => /\ reader.start <= reader.i
         /\ reader.i <= reader.end

\* Without the u flag every code point is one unit wide, and the index
\* stays in the window.
C27_IndexInWindowOfUnits ==
    (~reader.panic /\ ~reader.u)
      => /\ reader.start <= reader.i
         /\ reader.i <= reader.end

----------------------------------------------------------------------------
(* Claims about the modes of a literal *)

\* The flags on_reg_exp_flags has reported in the call.
ReportedFlags ==
    log[CHOOSE k \in 1..Len(log) : log[k].ev = "on_reg_exp_flags"].x

\* The pattern between the two solidi of the literal validated in the place
\* where it stands, under the modes that on_reg_exp_flags reported.
PatternUnderReported ==
    validate_pattern(NewValidator(call.strict, call.ecma), call.source,
                     call.start + 1, index(CallBody) - 1,
                     [unicode |-> ReportedFlags.unicode,
                      unicode_sets |-> ReportedFlags.unicode_sets])

\* The events of the literal's pattern: those from on_pattern_enter on,
\* without the on_literal_leave that ends a literal.
PatternEvents ==
    SelectSeq(log, LAMBDA e : e.ev \notin {"on_literal_enter",
                                           "on_reg_exp_flags",
                                           "on_literal_leave"})

\* The literal's pattern has been validated as under the reported modes.
ValidatedUnderReported ==
    /\ PatternEvents = PatternUnderReported.ev
    /\ (outcome.st = "ok") = (PatternUnderReported.st = "run")
    /\ (outcome.st = "err") = (PatternUnderReported.st = "err")
    /\ outcome.st = "err"
         => /\ outcome.msg.cause = PatternUnderReported.msg.cause
            /\ outcome.idx = PatternUnderReported.idx

\* C28: in validate_literal(source, start, end) the unicode and
\* unicode_sets modes under which the pattern is validated are the unicode
\* and unicode_sets that on_reg_exp_flags reports for the flag slice
\* [flag_start, end) of the call; code units at or after end never switch
\* a mode on.
C28_ModesAsReported ==
    (call.op = "validate_literal" /\ LogHas("on_reg_exp_flags"))
      => ValidatedUnderReported

\* C28 for the calls whose end is the end of the buffer.
C28_ModesAsReportedToBufferEnd ==
    (/\ call.op = "validate_literal"
     /\ LogHas("on_reg_exp_flags")
     /\ call.end = Len(call.source))
      => ValidatedUnderReported

----------------------------------------------------------------------------
(* Claims about the numbers of a braced quantifier *)

\* The pattern of the call is the letter a under a braced quantifier,
\* a{...}; BracedText is what stands between the brackets.
IsBraced ==
    /\ Len(call.source) >= 4
    /\ call.source[1] = LATIN_SMALL_LETTER_A
    /\ call.source[2] = LEFT_CURLY_BRACKET
    /\ Last(call.source) = RIGHT_CURLY_BRACKET

BracedText == SubSeq(call.source, 3, Len(call.source) - 1)

\* A number as it is written: digits without a leading zero.
IsNumeral(s) ==
    /\ s # <<>>
    /\ \A k \in 1..Len(s) : IsDigit(s[k])
    /\ Len(s) = 1 \/ s[1] # DIGIT_ZERO

CommaPlaces == {k \in 1..Len(BracedText) : BracedText[k] = COMMA}

\* The numeral of the lower bound, and that of the upper bound: the same
\* numeral in {n}, none in {n,}.
LowerText ==
    IF CommaPlaces = {} THEN BracedText
    ELSE SubSeq(BracedText, 1, (CHOOSE k \in CommaPlaces : TRUE) - 1)

UpperText ==
    IF CommaPlaces = {} THEN BracedText
    ELSE SubSeq(BracedText, (CHOOSE k \in CommaPlaces : TRUE) + 1,
                Len(BracedText))

IsBracedQuantifier ==
    /\ IsBraced
    /\ Cardinality(CommaPlaces) <= 1
    /\ IsNumeral(LowerText)
    /\ UpperText = <<>> \/ IsNumeral(UpperText)

\* The order of the numbers two numerals stand for.
NumeralLess(s, t) ==
    \/ Len(s) < Len(t)
    \/ /\ Len(s) = Len(t)
       /\ \E k \in 1..Len(s) :
            /\ s[k] < t[k]
            /\ \A j \in 1..(k - 1) : s[j] = t[j]

\* The on_quantifier events of the call give the numbers of the numerals,
\* and the sentinel for an upper bound that is not there.
QuantifierAsWritten ==
    /\ outcome.st = "ok"
    /\ \E k \in 1..Len(log) : log[k].ev = "on_quantifier"
    /\ \A k \in 1..Len(log) :
         log[k].ev = "on_quantifier"
           => /\ log[k].x[1] >= 0
              /\ Decimal(log[k].x[1]) = LowerText
              /\ IF UpperText = <<>> THEN log[k].x[2] = CodePointMax
                 ELSE /\ log[k].x[2] # CodePointMax
                      /\ log[k].x[2] >= 0
                      /\ Decimal(log[k].x[2]) = UpperText

QuantifierRule ==
    IF UpperText # <<>> /\ NumeralLess(UpperText, LowerText)
    THEN /\ outcome.st = "err"
         /\ outcome.msg.cause = "numbers out of order in {} quantifier"
    ELSE QuantifierAsWritten

\* C29: for every quantifier the validator accepts, the emitted min and max
\* are the exact values of the numerals in {n} and {n,m}, computed without
\* overflow, and max is CodePoint::MAX exactly when the quantifier has no
\* upper bound; a finite upper bound is never reported as the sentinel, and
\* the order check m < n is made on the exact values.
C29_QuantifierExact ==
    (WholePatternCall /\ IsBracedQuantifier) => QuantifierRule

\* C29 for the numerals of numbers below CodePoint::MAX.
C29_QuantifierExactBelowMax ==
    (/\ WholePatternCall
     /\ IsBracedQuantifier
     /\ NumeralLess(LowerText, Decimal(CodePointMax))
     /\ UpperText = <<>> \/ NumeralLess(UpperText, Decimal(CodePointMax)))
      => QuantifierRule

\* A quantifier with two numbers below CodePoint::MAX has been accepted.
C29_WitnessBelowMax ==
    /\ WholePatternCall
    /\ IsBracedQuantifier
    /\ CommaPlaces # {}
    /\ UpperText # <<>>
    /\ outcome.st = "ok"

----------------------------------------------------------------------------
(* Claims about the outcomes of validate_flags *)

\* The units of the flag slice of the call that are in the surrogate range.
SurrogateFlags ==
    {k \in 1..Len(CallSlice) : is_surrogate_code_point(CallSlice[k])}

\* C30: validate_flags returns Ok or Err(RegExpSyntaxError) for every
\* sequence of 16-bit units and every version, slices with units of the
\* surrogate range 0xD800..0xDFFF included: it never aborts while it builds
\* the message "Invalid flag" or "Duplicated flag".
C30_FlagsReturn ==
    call.op = "validate_flags" => outcome.st \in {"ok", "err"}

\* C30 for the slices without a unit of the surrogate range.
C30_FlagsReturnWithoutSurrogates ==
    (call.op = "validate_flags" /\ SurrogateFlags = {})
      => outcome.st \in {"ok", "err"}

\* An unknown flag that is a char, and a repeated one, have been rejected.
C30_WitnessInvalid ==
    /\ call.op = "validate_flags"
    /\ SurrogateFlags = {}
    /\ outcome.st = "err"
    /\ outcome.msg.cause = "Invalid flag"
====
